---- MODULE Spec2Model ----
(***************************************************************************)
(* A model of the haconfig configuration binder (src/haconfig/config.go):  *)
(* New, Load, loadFromYAML, loadFromEnv, processStruct, hasAnyEnvVar,      *)
(* getEnvName, buildPrefix, toSnakeCase, setFieldFromEnv, setFieldValue,   *)
(* setSliceValue, Validate, validateStruct and isZeroValue.                *)
(*                                                                         *)
(* Go strings are sequences of one-character strings, so that the name     *)
(* mangling and the value coercions are computed character by character.   *)
(***************************************************************************)
EXTENDS Integers, Sequences, FiniteSets, TLC

VARIABLES pc, cfgType, target, binder, env, file, err, log, str, result, stack,
          defaultLogger, once, goroutines, built, res, ret

\* the state of a test of haconfig
configVars == <<pc, cfgType, target, binder, env, file, err, log, str, result, stack>>

\* the package variables of o4g_logger and the goroutines that use them
loggerVars == <<defaultLogger, once, goroutines, built>>

\* a Result of package result and what the last call on it gave
resultVars == <<res, ret>>

vars == <<configVars, loggerVars, resultVars>>

(***************************************************************************)
(* Characters and strings                                                  *)
(***************************************************************************)
UpperLetters == <<"A", "B", "C", "D", "E", "F", "G", "H", "I", "J", "K", "L", "M", "N", "O", "P", "Q", "R", "S", "T", "U", "V", "W", "X", "Y", "Z">>

LowerLetters == <<"a", "b", "c", "d", "e", "f", "g", "h", "i", "j", "k", "l", "m", "n", "o", "p", "q", "r", "s", "t", "u", "v", "w", "x", "y", "z">>

Digits == <<"0", "1", "2", "3", "4", "5", "6", "7", "8", "9">>

Range(s) == {s[i] : i \in 1..Len(s)}

IndexIn(s, c) == CHOOSE i \in 1..Len(s) : s[i] = c

\* unicode.ToUpper / unicode.ToLower, on the letters they change
UpperOf == [c \in Range(LowerLetters) |-> UpperLetters[IndexIn(LowerLetters, c)]]

LowerOf == [c \in Range(UpperLetters) |-> LowerLetters[IndexIn(UpperLetters, c)]]

DigitOf == [c \in Range(Digits) |-> IndexIn(Digits, c) - 1]

IsUpper(c) == c \in DOMAIN LowerOf

IsLower(c) == c \in DOMAIN UpperOf

IsDigit(c) == c \in DOMAIN DigitOf

UpperChar(c) == IF IsLower(c) THEN UpperOf[c] ELSE c

LowerChar(c) == IF IsUpper(c) THEN LowerOf[c] ELSE c

\* strings.ToUpper
ToUpper(s) == [i \in 1..Len(s) |-> UpperChar(s[i])]

\* strings.ToLower
ToLower(s) == [i \in 1..Len(s) |-> LowerChar(s[i])]

SetMax(S) == CHOOSE x \in S : \A y \in S : y <= x

(***************************************************************************)
(* toSnakeCase: two regexp.ReplaceAllString passes, then strings.ToLower.  *)
(* A pass scans left to right; at the leftmost position where the pattern  *)
(* matches it writes the replacement and goes on after the match, and      *)
(* where it does not match it copies one character.                        *)
(***************************************************************************)
\* ([a-z0-9])([A-Z]) matches at i
Re1Matches(s, i) ==
    /\ i + 1 <= Len(s)
    /\ IsLower(s[i]) \/ IsDigit(s[i])
    /\ IsUpper(s[i + 1])

RECURSIVE Re1Replace(_, _)
Re1Replace(s, i) ==
    IF i > Len(s) THEN <<>>
    ELSE IF Re1Matches(s, i)
         THEN <<s[i], "_", s[i + 1]>> \o Re1Replace(s, i + 2)
         ELSE <<s[i]>> \o Re1Replace(s, i + 1)

\* the last index of the run of upper-case letters that starts at i (i - 1 if none)
RECURSIVE UpperRunEnd(_, _)
UpperRunEnd(s, i) ==
    IF i <= Len(s) /\ IsUpper(s[i]) THEN UpperRunEnd(s, i + 1) ELSE i - 1

\* ([A-Z][A-Z]+)([A-Z][a-z]) at i: group 1 of two or more upper-case letters
Re2Group2Starts_TwoOrMore(s, i) ==
    {k \in (i + 2)..UpperRunEnd(s, i) : k + 1 <= Len(s) /\ IsLower(s[k + 1])}

\* ([A-Z]+)([A-Z][a-z]) at i: the positions k where group 2 can start, group 1
\* being s[i..k-1], one or more upper-case letters, and s[k] an upper-case letter
Re2Group2Starts(s, i) ==
    {k \in (i + 1)..UpperRunEnd(s, i) : k + 1 <= Len(s) /\ IsLower(s[k + 1])}

RECURSIVE Re2Replace(_, _)
Re2Replace(s, i) ==
    IF i > Len(s) THEN <<>>
    ELSE LET ks == Re2Group2Starts(s, i)
             k == SetMax(ks)                              \* [A-Z]+ is greedy
         IN  IF ks # {}
             THEN SubSeq(s, i, k - 1) \o <<"_", s[k], s[k + 1]>> \o Re2Replace(s, k + 2)
             ELSE <<s[i]>> \o Re2Replace(s, i + 1)

\* toSnakeCase without its second replacement
toSnakeCase_FirstPassOnly(s) ==
    IF s = <<>> THEN <<>>
    ELSE ToLower(Re1Replace(s, 1))

toSnakeCase(s) ==
    IF s = <<>> THEN <<>>
    ELSE ToLower(Re2Replace(Re1Replace(s, 1), 1))

(***************************************************************************)
(* Types: what reflect.Type tells the binder about the target.  A type is  *)
(* a record with its kind; a slice or pointer type has elem, a struct type *)
(* has fields, each with its declared name, its type, its `required` tag,  *)
(* its yaml key and whether it is exported (reflect's CanSet).             *)
(***************************************************************************)
Basic(k) == [kind |-> k, name |-> k]

SliceOf(t) == [kind |-> "slice", name |-> "[]", elem |-> t]

PtrTo(t) == [kind |-> "ptr", name |-> "*", elem |-> t]

StructOf(name, fs) == [kind |-> "struct", name |-> name, fields |-> fs]

Field(n, t, req, key) ==
    [name |-> n, type |-> t, required |-> req, yaml |-> key, exported |-> TRUE]

\* time.Duration is an int64 and time.Time a struct: reflect reports those kinds
DurationType == [kind |-> "int64", name |-> "time.Duration"]

TimeType == [kind |-> "struct", name |-> "time.Time", fields |-> <<>>]

IsDuration(t) == t.name = "time.Duration"

IsTime(t) == t.name = "time.Time"

IntKinds == {"int", "int8", "int16", "int32", "int64"}

UintKinds == {"uint", "uint8", "uint16", "uint32", "uint64"}

FloatKinds == {"float32", "float64"}

\* the declared names of the fields of the target types
N ==
    [ Server |-> <<"S", "e", "r", "v", "e", "r">>,
      Database |-> <<"D", "a", "t", "a", "b", "a", "s", "e">>,
      Redis |-> <<"R", "e", "d", "i", "s">>,
      Features |-> <<"F", "e", "a", "t", "u", "r", "e", "s">>,
      Timeout |-> <<"T", "i", "m", "e", "o", "u", "t">>,
      Host |-> <<"H", "o", "s", "t">>,
      Port |-> <<"P", "o", "r", "t">>,
      TLS |-> <<"T", "L", "S">>,
      URL |-> <<"U", "R", "L">>,
      MaxConns |-> <<"M", "a", "x", "C", "o", "n", "n", "s">>,
      Credentials |-> <<"C", "r", "e", "d", "e", "n", "t", "i", "a", "l", "s">>,
      Password |-> <<"P", "a", "s", "s", "w", "o", "r", "d">>,
      DB |-> <<"D", "B">>,
      Username |-> <<"U", "s", "e", "r", "n", "a", "m", "e">>,
      EnableMetrics |-> <<"E", "n", "a", "b", "l", "e", "M", "e", "t", "r", "i", "c", "s">>,
      EnableTracing |-> <<"E", "n", "a", "b", "l", "e", "T", "r", "a", "c", "i", "n", "g">>,
      AllowedIPs |-> <<"A", "l", "l", "o", "w", "e", "d", "I", "P", "s">>,
      Name |-> <<"N", "a", "m", "e">>,
      Next |-> <<"N", "e", "x", "t">>,
      Primary |-> <<"P", "r", "i", "m", "a", "r", "y">>,
      Auth |-> <<"A", "u", "t", "h">>,
      Ratio |-> <<"R", "a", "t", "i", "o">>,
      Limit |-> <<"L", "i", "m", "i", "t">>,
      Level |-> <<"L", "e", "v", "e", "l">>,
      Started |-> <<"S", "t", "a", "r", "t", "e", "d">>,
      Debug |-> <<"D", "e", "b", "u", "g">>,
      Wait |-> <<"W", "a", "i", "t">>,
      Labels |-> <<"L", "a", "b", "e", "l", "s">>,
      Servers |-> <<"S", "e", "r", "v", "e", "r", "s">>,
      Count |-> <<"C", "o", "u", "n", "t">>,
      Backup |-> <<"B", "a", "c", "k", "u", "p">> ]

ServerConfig ==
    StructOf("ServerConfig",
        << Field(N.Host, Basic("string"), TRUE, "host"),
           Field(N.Port, Basic("int"), TRUE, "port"),
           Field(N.TLS, Basic("bool"), FALSE, "tls") >>)

Credentials ==
    StructOf("Credentials",
        << Field(N.Username, Basic("string"), FALSE, "username"),
           Field(N.Password, Basic("string"), FALSE, "password") >>)

DatabaseConfig ==
    StructOf("DatabaseConfig",
        << Field(N.URL, Basic("string"), TRUE, "url"),
           Field(N.MaxConns, Basic("int"), FALSE, "max_conns"),
           Field(N.Timeout, DurationType, FALSE, "timeout"),
           Field(N.Credentials, PtrTo(Credentials), FALSE, "credentials") >>)

RedisConfig ==
    StructOf("RedisConfig",
        << Field(N.Host, Basic("string"), FALSE, "host"),
           Field(N.Port, Basic("int"), FALSE, "port"),
           Field(N.Password, Basic("string"), FALSE, "password"),
           Field(N.DB, Basic("int"), FALSE, "db") >>)

FeatureFlags ==
    StructOf("FeatureFlags",
        << Field(N.EnableMetrics, Basic("bool"), FALSE, "enable_metrics"),
           Field(N.EnableTracing, Basic("bool"), FALSE, "enable_tracing"),
           Field(N.AllowedIPs, SliceOf(Basic("string")), FALSE, "allowed_ips") >>)

TestConfig ==
    StructOf("TestConfig",
        << Field(N.Server, ServerConfig, FALSE, "server"),
           Field(N.Database, DatabaseConfig, FALSE, "database"),
           Field(N.Redis, PtrTo(RedisConfig), FALSE, "redis"),
           Field(N.Features, FeatureFlags, FALSE, "features"),
           Field(N.Timeout, DurationType, FALSE, "timeout") >>)

(***************************************************************************)
(* Values.  A string is a sequence of characters, a bool a BOOLEAN, an     *)
(* integer an Int, a struct the sequence of its fields' values, a pointer  *)
(* NilPtr or PtrVal(v), a slice a record with its nil flag and elements.   *)
(***************************************************************************)
NilPtr == [nil |-> TRUE]

PtrVal(v) == [nil |-> FALSE, elem |-> v]

NilSlice == [nil |-> TRUE, elems |-> <<>>]

SliceVal(es) == [nil |-> FALSE, elems |-> es]

ZeroDuration == [neg |-> FALSE, sec |-> 0, nsec |-> 0]

ZeroFloat == [neg |-> FALSE, mant |-> 0, exp |-> 0, special |-> ""]

ZeroTime ==
    [year |-> 1, month |-> 1, day |-> 1, hour |-> 0, min |-> 0, sec |-> 0,
     nsec |-> 0, zone |-> 0]

\* reflect.Zero / reflect.New(t).Elem()
RECURSIVE Zero(_)
Zero(t) ==
    IF IsDuration(t) THEN ZeroDuration
    ELSE IF IsTime(t) THEN ZeroTime
    ELSE IF t.kind = "string" THEN <<>>
    ELSE IF t.kind = "bool" THEN FALSE
    ELSE IF t.kind \in IntKinds \cup UintKinds THEN 0
    ELSE IF t.kind \in FloatKinds THEN ZeroFloat
    ELSE IF t.kind = "slice" THEN NilSlice
    ELSE IF t.kind = "struct" THEN [i \in 1..Len(t.fields) |-> Zero(t.fields[i].type)]
    ELSE NilPtr        \* ptr, map, chan, func, interface: nil

(***************************************************************************)
(* Errors.  An error is the chain of its wrapped messages, outermost       *)
(* first; the nil error is the empty chain.                                *)
(***************************************************************************)
Nil == <<>>

Frame(msg) == [msg |-> msg, field |-> <<>>, index |-> 0, value |-> <<>>, kind |-> ""]

Errorf(msg) == <<Frame(msg)>>

\* fmt.Errorf("...: %w", err)
Wrap(frame, e) == <<frame>> \o e

(***************************************************************************)
(* Library functions the binder calls (strconv, strings, time), on the     *)
(* strings of this model.  A parse returns [ok, v].                        *)
(***************************************************************************)
Ok(v) == [ok |-> TRUE, v |-> v]

Fail == [ok |-> FALSE, v |-> <<>>]

\* strconv.ParseBool: exactly these twelve literals
ParseBool(s) ==
    IF s \in {<<"1">>, <<"t">>, <<"T">>, <<"T", "R", "U", "E">>, <<"t", "r", "u", "e">>, <<"T", "r", "u", "e">>} THEN Ok(TRUE)
    ELSE IF s \in {<<"0">>, <<"f">>, <<"F">>, <<"F", "A", "L", "S", "E">>, <<"f", "a", "l", "s", "e">>, <<"F", "a", "l", "s", "e">>} THEN Ok(FALSE)
    ELSE Fail

DigitVal(c) == DigitOf[c]

AllDigits(s) == Len(s) > 0 /\ \A i \in 1..Len(s) : IsDigit(s[i])

RECURSIVE DigitsValue(_)
DigitsValue(s) ==
    IF s = <<>> THEN 0
    ELSE DigitsValue(SubSeq(s, 1, Len(s) - 1)) * 10 + DigitVal(s[Len(s)])

RECURSIVE TrimLeadingZeros(_)
TrimLeadingZeros(s) ==
    IF Len(s) > 1 /\ s[1] = "0" THEN TrimLeadingZeros(Tail(s)) ELSE s

\* a < b for two digit strings read as numbers of any size
DigitsLess(a, b) ==
    LET x == TrimLeadingZeros(a)
        y == TrimLeadingZeros(b)
    IN  \/ Len(x) < Len(y)
        \/ /\ Len(x) = Len(y)
           /\ \E i \in 1..Len(x) :
                 /\ DigitVal(x[i]) < DigitVal(y[i])
                 /\ \A j \in 1..(i - 1) : x[j] = y[j]

MaxUint64Digits == <<"1", "8", "4", "4", "6", "7", "4", "4", "0", "7", "3", "7", "0", "9", "5", "5", "1", "6", "1", "5">>

MaxInt64Digits == <<"9", "2", "2", "3", "3", "7", "2", "0", "3", "6", "8", "5", "4", "7", "7", "5", "8", "0", "7">>

MinInt64Digits == <<"9", "2", "2", "3", "3", "7", "2", "0", "3", "6", "8", "5", "4", "7", "7", "5", "8", "0", "8">>

\* strconv.ParseUint(s, 10, 64): digits only, no sign, at most 2^64 - 1
ParseUint(s) ==
    IF ~AllDigits(s) THEN Fail
    ELSE IF DigitsLess(MaxUint64Digits, s) THEN Fail
    ELSE Ok(DigitsValue(s))

\* strconv.ParseInt(s, 10, 64): an optional sign, digits, within 64 bits
ParseInt(s) ==
    IF s = <<>> THEN Fail
    ELSE LET neg == s[1] = "-"
             body == IF s[1] \in {"+", "-"} THEN Tail(s) ELSE s
         IN  IF ~AllDigits(body) THEN Fail
             ELSE IF ~neg /\ DigitsLess(MaxInt64Digits, body) THEN Fail
             ELSE IF neg /\ DigitsLess(MinInt64Digits, body) THEN Fail
             ELSE Ok(IF neg THEN 0 - DigitsValue(body) ELSE DigitsValue(body))

\* SetInt that stores the 64-bit value as it is
TruncateInt_NoWrap(kind, x) == x

\* the conversion reflect's SetInt makes to the field's width
WrapSigned(x, m) == ((x + (m \div 2)) % m) - (m \div 2)

TruncateInt(kind, x) ==
    IF kind = "int8" THEN WrapSigned(x, 256)
    ELSE IF kind = "int16" THEN WrapSigned(x, 65536)
    ELSE x

\* the conversion reflect's SetUint makes to the field's width
TruncateUint(kind, x) ==
    IF kind = "uint8" THEN x % 256
    ELSE IF kind = "uint16" THEN x % 65536
    ELSE x

\* the number of leading characters of s that are digits
RECURSIVE DigitRun(_)
DigitRun(s) == IF s # <<>> /\ IsDigit(s[1]) THEN 1 + DigitRun(Tail(s)) ELSE 0

Drop(s, n) == SubSeq(s, n + 1, Len(s))

Take(s, n) == SubSeq(s, 1, n)

RECURSIVE Pow10(_)
Pow10(n) == IF n = 0 THEN 1 ELSE 10 * Pow10(n - 1)

\* the value of a digit string, the empty one counting 0
NumberOf(s) == IF s = <<>> THEN 0 ELSE DigitsValue(s)

RECURSIVE TrimTrailingZeros(_)
TrimTrailingZeros(s) ==
    IF s # <<>> /\ s[Len(s)] = "0" THEN TrimTrailingZeros(Take(s, Len(s) - 1)) ELSE s

RECURSIVE StripZeros(_)
StripZeros(s) == IF s # <<>> /\ s[1] = "0" THEN StripZeros(Tail(s)) ELSE s

\* a before b in dictionary order, for digit strings
LexLess(a, b) ==
    \/ \E i \in 1..Len(a) :
          /\ i <= Len(b)
          /\ DigitVal(a[i]) < DigitVal(b[i])
          /\ \A j \in 1..(i - 1) : a[j] = b[j]
    \/ Len(a) < Len(b) /\ \A j \in 1..Len(a) : a[j] = b[j]

FirstIndex(s, cs) ==
    IF \E i \in 1..Len(s) : s[i] \in cs
    THEN CHOOSE i \in 1..Len(s) : s[i] \in cs /\ \A j \in 1..(i - 1) : s[j] \notin cs
    ELSE 0

\* the leading digits of the largest float64, 1.7976931348623157e308
MaxFloat64Digits == <<"1", "7", "9", "7", "6", "9", "3", "1", "3", "4", "8", "6", "2", "3", "1", "5", "7">>

FloatVal(neg, mant, exp, special) ==
    [neg |-> neg, mant |-> mant, exp |-> exp, special |-> special]

\* strconv.ParseFloat(s, 64) on decimal literals and the special values: a
\* number is kept as mant * 10^exp, mant without trailing zeros.  (The
\* hexadecimal mantissa form, which ParseFloat also reads, is left out.)
ParseFloat(s) ==
    LET signed == s # <<>> /\ s[1] \in {"+", "-"}
        neg == s # <<>> /\ s[1] = "-"
        u == IF signed THEN Tail(s) ELSE s
        low == ToLower(u)
        epos == FirstIndex(u, {"e", "E"})
        m == IF epos = 0 THEN u ELSE Take(u, epos - 1)
        x == IF epos = 0 THEN <<>> ELSE Drop(u, epos)
        xsigned == x # <<>> /\ x[1] \in {"+", "-"}
        xdigits == IF xsigned THEN Tail(x) ELSE x
        dot == FirstIndex(m, {"."})
        ipart == IF dot = 0 THEN m ELSE Take(m, dot - 1)
        fpart == IF dot = 0 THEN <<>> ELSE Drop(m, dot)
        digits == TrimTrailingZeros(StripZeros(ipart \o fpart))
        dropped == Len(StripZeros(ipart \o fpart)) - Len(digits)
        e == IF epos = 0 THEN 0
             ELSE IF x[1] = "-" THEN 0 - DigitsValue(xdigits)
             ELSE DigitsValue(xdigits)
        exp == e - Len(fpart) + dropped
    IN  IF low \in {<<"i", "n", "f">>, <<"i", "n", "f", "i", "n", "i", "t", "y">>} THEN Ok(FloatVal(neg, 0, 0, "inf"))
        ELSE IF ~signed /\ low = <<"n", "a", "n">> THEN Ok(FloatVal(FALSE, 0, 0, "nan"))
        ELSE IF \E i \in 1..Len(ipart) : ~IsDigit(ipart[i]) THEN Fail
        ELSE IF \E i \in 1..Len(fpart) : ~IsDigit(fpart[i]) THEN Fail
        ELSE IF Len(ipart) + Len(fpart) = 0 THEN Fail
        ELSE IF epos # 0 /\ ~AllDigits(xdigits) THEN Fail
        ELSE IF digits = <<>> THEN Ok(FloatVal(neg, 0, 0, ""))
        ELSE IF Len(digits) + exp > 309 THEN Fail                  \* out of range
        ELSE IF Len(digits) + exp = 309 /\ LexLess(MaxFloat64Digits, digits) THEN Fail
        ELSE Ok(FloatVal(neg, DigitsValue(digits), exp, ""))

IsZeroFloat(f) == f.special = "" /\ f.mant = 0

(***************************************************************************)
(* time.ParseDuration: an optional sign, then one or more terms, each a    *)
(* decimal number (digits, optional fraction) and a unit; or "0".  A       *)
(* duration is kept as a sign, whole seconds and nanoseconds.              *)
(***************************************************************************)
DurationUnits == {<<"n", "s">>, <<"u", "s">>, <<"m", "s">>, <<"s">>, <<"m">>, <<"h">>}

UnitSeconds(u) == IF u = <<"h">> THEN 3600 ELSE IF u = <<"m">> THEN 60 ELSE IF u = <<"s">> THEN 1 ELSE 0

UnitNanos(u) ==
    IF u = <<"m", "s">> THEN 1000000 ELSE IF u = <<"u", "s">> THEN 1000 ELSE IF u = <<"n", "s">> THEN 1 ELSE 0

Billion == 1000000000

\* the leading characters of s up to the next '.' or digit: the unit
RECURSIVE UnitRun(_)
UnitRun(s) ==
    IF s # <<>> /\ s[1] # "." /\ ~IsDigit(s[1]) THEN 1 + UnitRun(Tail(s)) ELSE 0

\* v.f units, as [sec, nsec]
DurationTerm(v, fdigits, u) ==
    LET f == NumberOf(fdigits)
        scale == Pow10(Len(fdigits))
        wholeNs == v * UnitNanos(u)
        fracT == f * UnitSeconds(u)
        fracNs == IF UnitSeconds(u) > 0
                  THEN (fracT % scale) * (Billion \div scale)
                  ELSE (f * UnitNanos(u)) \div scale
        ns == (wholeNs % Billion) + fracNs
    IN  [sec |-> (v * UnitSeconds(u)) + (wholeNs \div Billion) + (fracT \div scale)
                    + (ns \div Billion),
         nsec |-> ns % Billion]

RECURSIVE ParseDurationTerms(_, _)
ParseDurationTerms(s, acc) ==
    IF s = <<>> THEN Ok(acc)
    ELSE IF ~(s[1] = "." \/ IsDigit(s[1])) THEN Fail
    ELSE LET n1 == DigitRun(s)
             r1 == Drop(s, n1)
             hasDot == r1 # <<>> /\ r1[1] = "."
             r2 == IF hasDot THEN Tail(r1) ELSE r1
             n2 == IF hasDot THEN DigitRun(r2) ELSE 0
             r3 == Drop(r2, n2)
             ulen == UnitRun(r3)
             u == Take(r3, ulen)
         IN  IF n1 = 0 /\ n2 = 0 THEN Fail
             ELSE IF ulen = 0 THEN Fail                    \* missing unit
             ELSE IF u \notin DurationUnits THEN Fail      \* unknown unit
             ELSE LET t == DurationTerm(NumberOf(Take(s, n1)), Take(r2, n2), u)
                      ns == acc.nsec + t.nsec
                  IN  ParseDurationTerms(Drop(r3, ulen),
                          [sec |-> acc.sec + t.sec + (ns \div Billion),
                           nsec |-> ns % Billion])

ParseDuration(s) ==
    LET signed == s # <<>> /\ s[1] \in {"+", "-"}
        u == IF signed THEN Tail(s) ELSE s
        r == ParseDurationTerms(u, [sec |-> 0, nsec |-> 0])
    IN  IF u = <<"0">> THEN Ok(ZeroDuration)
        ELSE IF u = <<>> THEN Fail
        ELSE IF ~r.ok THEN Fail
        ELSE Ok([neg |-> s[1] = "-" /\ (r.v.sec # 0 \/ r.v.nsec # 0),
                 sec |-> r.v.sec, nsec |-> r.v.nsec])

IsZeroDuration(d) == d.sec = 0 /\ d.nsec = 0

(***************************************************************************)
(* time.Parse(layout, value).  A layout is the sequence of its elements:   *)
(* "2006" (year), "01" (month), "02" (day), "15" (hour), "04" (minute),    *)
(* "05" (second), "Z07:00" (zone), and any other string a literal          *)
(* character.  A time is the record of its fields.                         *)
(***************************************************************************)
LayoutRFC3339 ==
    <<"2006", "-", "01", "-", "02", "T", "15", ":", "04", ":", "05", "Z07:00">>

LayoutDateTime == <<"2006", "-", "01", "-", "02", " ", "15", ":", "04", ":", "05">>

LayoutDate == <<"2006", "-", "01", "-", "02">>

LayoutClock == <<"15", ":", "04", ":", "05">>

\* before any element is read: no year, and Parse's defaults for the rest
UnsetTime ==
    [year |-> 0, month |-> 1, day |-> 1, hour |-> 0, min |-> 0, sec |-> 0,
     nsec |-> 0, zone |-> 0]

IsLeap(y) == y % 4 = 0 /\ (y % 100 # 0 \/ y % 400 = 0)

DaysIn(m, y) ==
    IF m = 2 THEN (IF IsLeap(y) THEN 29 ELSE 28)
    ELSE IF m \in {4, 6, 9, 11} THEN 30
    ELSE 31

\* getnum(s, fixed): one or two digits, two when fixed; the digits read, or 0
GetnumLen(s, fixed) ==
    IF s = <<>> \/ ~IsDigit(s[1]) THEN 0
    ELSE IF Len(s) >= 2 /\ IsDigit(s[2]) THEN 2
    ELSE IF fixed THEN 0
    ELSE 1

\* the fraction of a second that may follow the seconds: [.,] and digits
FractionLen(s) ==
    IF Len(s) >= 2 /\ s[1] \in {".", ","} /\ IsDigit(s[2])
    THEN 1 + DigitRun(Tail(s))
    ELSE 0

\* parseNanoseconds: at most nine digits count
Nanoseconds(ds) ==
    LET d == IF Len(ds) > 9 THEN Take(ds, 9) ELSE ds
    IN  DigitsValue(d) * Pow10(9 - Len(d))

RECURSIVE ParseLayout(_, _, _)
ParseLayout(layout, s, t) ==
    IF layout = <<>>
    THEN IF s # <<>> THEN Fail                               \* extra text
         ELSE IF t.day < 1 \/ t.day > DaysIn(t.month, t.year) THEN Fail
         ELSE Ok(t)
    ELSE LET el == layout[1]
             rest == Tail(layout)
         IN  IF el = "2006"
             THEN IF Len(s) < 4 \/ ~AllDigits(Take(s, 4)) THEN Fail
                  ELSE ParseLayout(rest, Drop(s, 4),
                                   [t EXCEPT !.year = DigitsValue(Take(s, 4))])
             ELSE IF el \in {"01", "02", "04", "05", "15"}
             THEN LET n == GetnumLen(s, el # "15")
                      v == NumberOf(Take(s, n))
                      after == Drop(s, n)
                      fl == IF el = "05" THEN FractionLen(after) ELSE 0
                  IN  IF n = 0 THEN Fail
                      ELSE IF el = "01" /\ (v <= 0 \/ 12 < v) THEN Fail
                      ELSE IF el = "15" /\ 24 <= v THEN Fail
                      ELSE IF el \in {"04", "05"} /\ 60 <= v THEN Fail
                      ELSE ParseLayout(rest, Drop(after, fl),
                               IF el = "01" THEN [t EXCEPT !.month = v]
                               ELSE IF el = "02" THEN [t EXCEPT !.day = v]
                               ELSE IF el = "15" THEN [t EXCEPT !.hour = v]
                               ELSE IF el = "04" THEN [t EXCEPT !.min = v]
                               ELSE [t EXCEPT !.sec = v,
                                              !.nsec = IF fl = 0 THEN 0
                                                       ELSE Nanoseconds(SubSeq(after, 2, fl))])
             ELSE IF el = "Z07:00"
             THEN IF s # <<>> /\ s[1] = "Z" THEN ParseLayout(rest, Tail(s), t)
                  ELSE IF Len(s) < 6 THEN Fail
                  ELSE IF s[4] # ":" \/ s[1] \notin {"+", "-"} THEN Fail
                  ELSE IF ~AllDigits(SubSeq(s, 2, 3)) \/ ~AllDigits(SubSeq(s, 5, 6)) THEN Fail
                  ELSE LET hr == DigitsValue(SubSeq(s, 2, 3))
                           mm == DigitsValue(SubSeq(s, 5, 6))
                       IN  IF hr > 24 \/ mm > 60 THEN Fail
                           ELSE ParseLayout(rest, Drop(s, 6),
                                    [t EXCEPT !.zone = (IF s[1] = "-" THEN -1 ELSE 1)
                                                          * (hr * 60 + mm)])
             ELSE IF s = <<>> \/ s[1] # el THEN Fail
             ELSE ParseLayout(rest, Tail(s), t)

ParseTime(layout, s) == ParseLayout(layout, s, UnsetTime)

\* strings.Split(s, ",")
RECURSIVE Split(_)
Split(s) ==
    LET i == FirstIndex(s, {","})
    IN  IF i = 0 THEN <<s>> ELSE <<Take(s, i - 1)>> \o Split(Drop(s, i))

WhiteSpace == {" ", "\t", "\n", "\r"}

\* strings.TrimSpace
RECURSIVE TrimSpace(_)
TrimSpace(s) ==
    IF s # <<>> /\ s[1] \in WhiteSpace THEN TrimSpace(Tail(s))
    ELSE IF s # <<>> /\ s[Len(s)] \in WhiteSpace THEN TrimSpace(Take(s, Len(s) - 1))
    ELSE s

\* os.Getenv: the value, or "" when the variable is not set
Getenv(e, name) == IF name \in DOMAIN e THEN e[name] ELSE <<>>

(***************************************************************************)
(* The binder.  Config is the record of its fields; an option is the       *)
(* record of its constructor and argument.  Every function that reads the  *)
(* environment returns, beside its results, the log of the os.Getenv       *)
(* calls it made (name, caller, and the path of the field it was made      *)
(* for): the log is the model's record of what the binder consulted.       *)
(***************************************************************************)
EmptyMapping == [n \in {} |-> <<>>]

WithEnvPrefix(prefix) == [opt |-> "WithEnvPrefix", prefix |-> prefix]

WithYAMLFile(f) == [opt |-> "WithYAMLFile", file |-> f]

WithEnvMapping(mapping) == [opt |-> "WithEnvMapping", mapping |-> mapping]

ApplyOption(c, o) ==
    IF o.opt = "WithEnvPrefix" THEN [c EXCEPT !.envPrefix = o.prefix]
    ELSE IF o.opt = "WithYAMLFile" THEN [c EXCEPT !.yamlFile = o.file]
    ELSE [c EXCEPT !.envMapping = o.mapping]

RECURSIVE ApplyOptions(_, _)
ApplyOptions(c, opts) ==
    IF opts = <<>> THEN c ELSE ApplyOptions(ApplyOption(c, opts[1]), Tail(opts))

New(opts) ==
    ApplyOptions([envPrefix |-> <<>>, yamlFile |-> "", envMapping |-> EmptyMapping], opts)

\* buildPrefix that forgets the ancestors
buildPrefix_FieldOnly(c, currentPrefix, fieldName) == toSnakeCase(fieldName)

buildPrefix(c, currentPrefix, fieldName) ==
    LET snakeName == toSnakeCase(fieldName)
    IN  IF currentPrefix = <<>> THEN snakeName
        ELSE currentPrefix \o <<"_">> \o snakeName

getEnvName(c, fieldName, prefix) ==
    LET n0 == toSnakeCase(fieldName)
        n1 == IF prefix # <<>> THEN prefix \o <<"_">> \o n0 ELSE n0
        n2 == IF c.envPrefix # <<>> THEN c.envPrefix \o <<"_">> \o n1 ELSE n1
    IN  ToUpper(n2)

\* the mapped name with the configured prefix put before it
leafEnvName_Prefixed(c, fieldName, prefix) ==
    IF fieldName \in DOMAIN c.envMapping
    THEN (IF c.envPrefix # <<>> THEN ToUpper(c.envPrefix) \o <<"_">> ELSE <<>>)
             \o c.envMapping[fieldName]
    ELSE getEnvName(c, fieldName, prefix)

\* envName := c.getEnvName(...); if customName, exists := c.envMapping[fieldName] ...
leafEnvName(c, fieldName, prefix) ==
    IF fieldName \in DOMAIN c.envMapping THEN c.envMapping[fieldName]
    ELSE getEnvName(c, fieldName, prefix)

GetenvEntry(by, name, path) == [op |-> "Getenv", by |-> by, name |-> name, path |-> path]

IsNestedStruct(t) == t.kind = "struct" /\ ~IsTime(t)

IsStructPointer(t) == t.kind = "ptr" /\ t.elem.kind = "struct"

\* the one element of a singleton: Only({f(x) : x \in {e}}) is f(e), with e
\* computed once and named x
Only(S) == CHOOSE x \in S : TRUE

\* the os.Getenv calls of l, then those of r
PrependLog(l, r) == [r EXCEPT !.log = l \o @]

\* hasAnyEnvVar, from field i on, and its loop body for field f: [found, log]
RECURSIVE hasAnyEnvVarFrom(_, _, _, _, _, _)
RECURSIVE hasAnyEnvVarField(_, _, _, _, _)
\* the loop body of hasAnyEnvVar without its descent into nullable records
hasAnyEnvVarField_Shallow(c, e, f, prefix, path) ==
    IF IsNestedStruct(f.type)
    THEN hasAnyEnvVarFrom(c, e, f.type, buildPrefix(c, prefix, f.name),
                          path \o <<f.name>>, 1)
    ELSE IF IsStructPointer(f.type) THEN [found |-> FALSE, log |-> <<>>]
    ELSE Only({[found |-> Getenv(e, envName) # <<>>,
                log |-> <<GetenvEntry("hasAnyEnvVar", envName, path \o <<f.name>>)>>] :
               envName \in {leafEnvName(c, f.name, prefix)}})

hasAnyEnvVarField(c, e, f, prefix, path) ==
    IF IsNestedStruct(f.type)
    THEN hasAnyEnvVarFrom(c, e, f.type, buildPrefix(c, prefix, f.name),
                          path \o <<f.name>>, 1)
    ELSE IF IsStructPointer(f.type)
    THEN hasAnyEnvVarFrom(c, e, f.type.elem, buildPrefix(c, prefix, f.name),
                          path \o <<f.name>>, 1)
    ELSE Only({[found |-> Getenv(e, envName) # <<>>,
                log |-> <<GetenvEntry("hasAnyEnvVar", envName, path \o <<f.name>>)>>] :
               envName \in {leafEnvName(c, f.name, prefix)}})

hasAnyEnvVarFrom(c, e, structType, prefix, path, i) ==
    IF i > Len(structType.fields) THEN [found |-> FALSE, log |-> <<>>]
    ELSE Only({IF here.found THEN here
               ELSE PrependLog(here.log,
                               hasAnyEnvVarFrom(c, e, structType, prefix, path, i + 1)) :
               here \in {hasAnyEnvVarField(c, e, structType.fields[i], prefix, path)}})

hasAnyEnvVar(c, e, structType, prefix, path) ==
    hasAnyEnvVarFrom(c, e, structType, prefix, path, 1)

ValueFrame(msg, value) == [Frame(msg) EXCEPT !.value = value]

TimeFormats == <<LayoutDateTime, LayoutDate, LayoutClock>>

\* time.Parse(time.RFC3339, value), then the other formats in order
RECURSIVE ParseTimeFormats(_, _)
ParseTimeFormats(formats, value) ==
    IF formats = <<>> THEN Fail
    ELSE LET r == ParseTime(formats[1], value)
         IN  IF r.ok THEN r ELSE ParseTimeFormats(Tail(formats), value)

parseTimeValue(value) ==
    LET r == ParseTime(LayoutRFC3339, value)
    IN  IF r.ok THEN r ELSE ParseTimeFormats(TimeFormats, value)

\* field.Set(reflect.New(...)) around the inner result
AsPointer(r) == [r EXCEPT !.v = PtrVal(@)]

\* fmt.Errorf("...: %w", err) around the inner result's error, if it has one
WrapErr(frame, r) == [r EXCEPT !.err = IF @ = Nil THEN Nil ELSE Wrap(frame, @)]

\* the parse error dropped and the field left as it is
Coerced_ErrorDropped(field, r, msg, value) ==
    IF ~r.ok THEN [v |-> field, err |-> Nil] ELSE [v |-> r.v, err |-> Nil]

\* x, err := parse(value); if err != nil { return "invalid ..." }; field.Set(x)
Coerced(field, r, msg, value) ==
    IF ~r.ok THEN [v |-> field, err |-> <<ValueFrame(msg, value)>>]
    ELSE [v |-> r.v, err |-> Nil]

\* field.SetInt(x) and field.SetUint(x) keep the field's width
SetInt(kind, r) == IF r.ok THEN Ok(TruncateInt(kind, r.v)) ELSE r

SetUint(kind, r) == IF r.ok THEN Ok(TruncateUint(kind, r.v)) ELSE r

\* setFieldValue and setSliceValue: [v, err], v the field after the call
RECURSIVE setFieldValue(_, _, _)
RECURSIVE setSliceElems(_, _, _, _)
RECURSIVE setSliceValue(_, _, _)
setFieldValue(field, t, value) ==
    IF t.kind = "string" THEN [v |-> value, err |-> Nil]
    ELSE IF t.kind = "bool"
    THEN Coerced(field, ParseBool(value), "invalid bool value", value)
    ELSE IF t.kind \in IntKinds
    THEN IF IsDuration(t)
         THEN Coerced(field, ParseDuration(value), "invalid duration value", value)
         ELSE Coerced(field, SetInt(t.kind, ParseInt(value)), "invalid int value", value)
    ELSE IF t.kind \in UintKinds
    THEN Coerced(field, SetUint(t.kind, ParseUint(value)), "invalid uint value", value)
    ELSE IF t.kind \in FloatKinds
    THEN Coerced(field, ParseFloat(value), "invalid float value", value)
    ELSE IF t.kind = "slice"
    THEN setSliceValue(field, t, value)
    ELSE IF t.kind = "ptr"
    THEN AsPointer(setFieldValue(IF field.nil THEN Zero(t.elem) ELSE field.elem,
                                 t.elem, value))
    ELSE IF t.kind = "struct"
    THEN IF IsTime(t)
         THEN Coerced(field, parseTimeValue(value), "invalid time value", value)
         ELSE [v |-> field, err |-> Nil]       \* no branch for other structs
    ELSE [v |-> field,
          err |-> <<[Frame("unsupported field type") EXCEPT !.kind = t.kind]>>]

\* setSliceValue's loop: done holds the elements set so far, Len(done) is Go's i
\* the loop of setSliceValue without strings.TrimSpace
setSliceElems_Untrimmed(field, t, parts, done) ==
    IF Len(done) = Len(parts) THEN [v |-> SliceVal(done), err |-> Nil]
    ELSE Only({IF r.err # Nil
               THEN [v |-> field,
                     err |-> Wrap([Frame("invalid slice element at index")
                                       EXCEPT !.index = Len(done)], r.err)]
               ELSE setSliceElems(field, t, parts, Append(done, r.v)) :
               r \in {setFieldValue(Zero(t.elem), t.elem, parts[Len(done) + 1])}})

\* the loop of setSliceValue setting the field after every element
setSliceElems_StoresPartial(field, t, parts, done) ==
    IF Len(done) = Len(parts) THEN [v |-> SliceVal(done), err |-> Nil]
    ELSE Only({IF r.err # Nil
               THEN [v |-> SliceVal(done),
                     err |-> Wrap([Frame("invalid slice element at index")
                                       EXCEPT !.index = Len(done)], r.err)]
               ELSE setSliceElems(field, t, parts, Append(done, r.v)) :
               r \in {setFieldValue(Zero(t.elem), t.elem, TrimSpace(parts[Len(done) + 1]))}})

setSliceElems(field, t, parts, done) ==
    IF Len(done) = Len(parts) THEN [v |-> SliceVal(done), err |-> Nil]
    ELSE Only({IF r.err # Nil
               THEN [v |-> field,
                     err |-> Wrap([Frame("invalid slice element at index")
                                       EXCEPT !.index = Len(done)], r.err)]
               ELSE setSliceElems(field, t, parts, Append(done, r.v)) :
               r \in {setFieldValue(Zero(t.elem), t.elem, TrimSpace(parts[Len(done) + 1]))}})

setSliceValue(field, t, value) == setSliceElems(field, t, Split(value), <<>>)

\* setFieldFromEnv that leaves alone a field that already holds a value
setFieldFromEnv_KeepsValue(e, field, t, envName, path) ==
    PrependLog(<<GetenvEntry("setFieldFromEnv", envName, path)>>,
               IF Getenv(e, envName) = <<>> \/ field # Zero(t)
               THEN [v |-> field, err |-> Nil, log |-> <<>>]
               ELSE Only({[v |-> r.v, err |-> r.err, log |-> <<>>] :
                          r \in {setFieldValue(field, t, Getenv(e, envName))}}))

\* setFieldFromEnv that coerces the value of every variable that is set, "" included
setFieldFromEnv_EmptyIsSet(e, field, t, envName, path) ==
    PrependLog(<<GetenvEntry("setFieldFromEnv", envName, path)>>,
               IF envName \notin DOMAIN e THEN [v |-> field, err |-> Nil, log |-> <<>>]
               ELSE Only({[v |-> r.v, err |-> r.err, log |-> <<>>] :
                          r \in {setFieldValue(field, t, e[envName])}}))

\* [v, err, log]
setFieldFromEnv(e, field, t, envName, path) ==
    PrependLog(<<GetenvEntry("setFieldFromEnv", envName, path)>>,
               Only({IF envValue = <<>> THEN [v |-> field, err |-> Nil, log |-> <<>>]
                     ELSE Only({[v |-> r.v, err |-> r.err, log |-> <<>>] :
                                r \in {setFieldValue(field, t, envValue)}}) :
                     envValue \in {Getenv(e, envName)}}))

FieldFrame(fieldName) == [Frame("failed to set field") EXCEPT !.field = fieldName]

\* processStruct, from field i on, and its loop body for the field f: [v, err, log],
\* v the struct (the field) after the call
RECURSIVE processStructFrom(_, _, _, _, _, _, _)
RECURSIVE processField(_, _, _, _, _, _)
processStruct(c, e, v, t, prefix, path) == processStructFrom(c, e, v, t, prefix, path, 1)

\* the loop body that makes a new record for every nullable record it enters
processField_NewRecord(c, e, field, f, prefix, path) ==
    IF ~f.exported THEN [v |-> field, err |-> Nil, log |-> <<>>]
    ELSE IF IsNestedStruct(f.type)
    THEN processStruct(c, e, field, f.type, buildPrefix(c, prefix, f.name),
                       path \o <<f.name>>)
    ELSE IF IsStructPointer(f.type)
    THEN Only({IF ~h.found THEN [v |-> field, err |-> Nil, log |-> h.log]
               ELSE PrependLog(h.log,
                        AsPointer(processStruct(c, e, Zero(f.type.elem),
                                      f.type.elem, buildPrefix(c, prefix, f.name),
                                      path \o <<f.name>>))) :
               h \in {hasAnyEnvVar(c, e, f.type.elem, buildPrefix(c, prefix, f.name),
                                   path \o <<f.name>>)}})
    ELSE WrapErr(FieldFrame(f.name),
                 setFieldFromEnv(e, field, f.type, leafEnvName(c, f.name, prefix),
                                 path \o <<f.name>>))

processField(c, e, field, f, prefix, path) ==
    IF ~f.exported THEN [v |-> field, err |-> Nil, log |-> <<>>]
    ELSE IF IsNestedStruct(f.type)
    THEN processStruct(c, e, field, f.type, buildPrefix(c, prefix, f.name),
                       path \o <<f.name>>)
    ELSE IF IsStructPointer(f.type)
    THEN Only({IF ~h.found THEN [v |-> field, err |-> Nil, log |-> h.log]
               ELSE PrependLog(h.log,
                        AsPointer(processStruct(c, e,
                                      IF field.nil THEN Zero(f.type.elem) ELSE field.elem,
                                      f.type.elem, buildPrefix(c, prefix, f.name),
                                      path \o <<f.name>>))) :
               h \in {hasAnyEnvVar(c, e, f.type.elem, buildPrefix(c, prefix, f.name),
                                   path \o <<f.name>>)}})
    ELSE WrapErr(FieldFrame(f.name),
                 setFieldFromEnv(e, field, f.type, leafEnvName(c, f.name, prefix),
                                 path \o <<f.name>>))

processStructFrom(c, e, v, t, prefix, path, i) ==
    IF i > Len(t.fields) THEN [v |-> v, err |-> Nil, log |-> <<>>]
    ELSE Only({IF here.err # Nil
               THEN [v |-> [v EXCEPT ![i] = here.v], err |-> here.err, log |-> here.log]
               ELSE PrependLog(here.log,
                        processStructFrom(c, e, [v EXCEPT ![i] = here.v], t,
                                          prefix, path, i + 1)) :
               here \in {processField(c, e, v[i], t.fields[i], prefix, path)}})

loadFromEnv(c, e, v, t) == processStruct(c, e, v, t, <<>>, <<>>)

(***************************************************************************)
(* The YAML step.  A file is absent, unreadable, malformed, or holds a     *)
(* document; a document is the tree yaml.Unmarshal decodes: a mapping is   *)
(* a record from keys to nodes, a sequence a tuple of nodes, a scalar the  *)
(* decoded value.  Unmarshal assigns the fields whose yaml key the         *)
(* mapping has, allocates a nil pointer it has a node for, and replaces a  *)
(* slice.                                                                  *)
(***************************************************************************)
Absent == [st |-> "absent"]

\* a file os.ReadFile fails on for a reason other than its absence, with the error
Unreadable == [st |-> "unreadable", cause |-> Errorf("permission denied")]

\* a file yaml.Unmarshal cannot parse, with the error: nothing is decoded
Malformed ==
    [st |-> "malformed", cause |-> Errorf("yaml: did not find expected key"), doc |-> <<>>]

\* a file with a node of the wrong type for its field: yaml.Unmarshal decodes the
\* rest, d, and returns the error
Mistyped(d) == [st |-> "malformed", cause |-> Errorf("yaml: unmarshal errors"), doc |-> d]

DocFile(d) == [st |-> "doc", doc |-> d]

\* os.ReadFile
ReadFile(fs, path) == IF path \in DOMAIN fs THEN fs[path] ELSE Absent

RECURSIVE yamlUnmarshal(_, _, _)
yamlUnmarshal(node, t, v) ==
    IF IsNestedStruct(t)
    THEN [i \in 1..Len(t.fields) |->
             IF t.fields[i].exported /\ t.fields[i].yaml \in DOMAIN node
             THEN yamlUnmarshal(node[t.fields[i].yaml], t.fields[i].type, v[i])
             ELSE v[i]]
    ELSE IF t.kind = "ptr"
    THEN PtrVal(yamlUnmarshal(node, t.elem, IF v.nil THEN Zero(t.elem) ELSE v.elem))
    ELSE IF t.kind = "slice"
    THEN SliceVal([i \in 1..Len(node) |-> yamlUnmarshal(node[i], t.elem, Zero(t.elem))])
    ELSE node

ReadFileEntry(path) ==
    [op |-> "ReadFile", by |-> "loadFromYAML", name |-> <<path>>, path |-> <<>>]

\* loadFromYAML without its os.IsNotExist test
loadFromYAML_AbsentFails(c, fs, v, t) ==
    LET f == ReadFile(fs, c.yamlFile)
        entry == <<ReadFileEntry(c.yamlFile)>>
    IN  IF f.st = "absent"
        THEN [v |-> v, err |-> Wrap(Frame("failed to read YAML file"),
                                    Errorf("no such file or directory")), log |-> entry]
        ELSE IF f.st \in {"unreadable", "malformed"}
        THEN [v |-> yamlUnmarshal(IF f.st = "malformed" THEN f.doc ELSE <<>>, t, v),
              err |-> Wrap(Frame(IF f.st = "malformed" THEN "failed to unmarshal YAML"
                                 ELSE "failed to read YAML file"), f.cause),
              log |-> entry]
        ELSE [v |-> yamlUnmarshal(f.doc, t, v), err |-> Nil, log |-> entry]

\* [v, err, log]
loadFromYAML(c, fs, v, t) ==
    LET f == ReadFile(fs, c.yamlFile)
        entry == <<ReadFileEntry(c.yamlFile)>>
    IN  IF f.st = "absent" THEN [v |-> v, err |-> Nil, log |-> entry]
        ELSE IF f.st = "unreadable"
        THEN [v |-> v, err |-> Wrap(Frame("failed to read YAML file"), f.cause), log |-> entry]
        ELSE IF f.st = "malformed"
        THEN [v |-> yamlUnmarshal(f.doc, t, v),
              err |-> Wrap(Frame("failed to unmarshal YAML"), f.cause), log |-> entry]
        ELSE [v |-> yamlUnmarshal(f.doc, t, v), err |-> Nil, log |-> entry]

(***************************************************************************)
(* Load.  The argument cfg is what the caller passes: shape "nil" (the nil *)
(* interface), "value" (a struct, not a pointer), "ptrstring" (a pointer   *)
(* to a string), "nilptr" (a nil pointer to a struct) or "ptr" (a pointer  *)
(* to the struct val of type t).  Load returns [v, err, log], v the struct *)
(* after the call.                                                         *)
(***************************************************************************)
ArgKind(cfg) == IF cfg.shape \in {"ptr", "nilptr", "ptrstring"} THEN "ptr" ELSE cfg.shape

\* v.Elem().Kind() taken to be a struct for every pointer
ArgElemKind_AnyPointer(cfg) == IF ArgKind(cfg) = "ptr" THEN "struct" ELSE "invalid"

\* v.Elem().Kind()
ArgElemKind(cfg) ==
    IF cfg.shape = "ptr" THEN "struct"
    ELSE IF cfg.shape = "ptrstring" THEN "string"
    ELSE "invalid"

\* Load going on to the overlay after a failed YAML step
Load_OverlayAfterYAMLError(c, e, fs, cfg, t) ==
    IF cfg.shape = "nil"
    THEN [v |-> cfg.val, err |-> Errorf("config cannot be nil"), log |-> <<>>]
    ELSE IF ArgKind(cfg) # "ptr" \/ ArgElemKind(cfg) # "struct"
    THEN [v |-> cfg.val, err |-> Errorf("config must be a pointer to struct"), log |-> <<>>]
    ELSE Only({Only({[o EXCEPT !.err = IF y.err # Nil
                                        THEN Wrap(Frame("failed to load YAML"), y.err)
                                        ELSE o.err] :
                     o \in {PrependLog(y.log, WrapErr(Frame("failed to load from env"),
                                                      loadFromEnv(c, e, y.v, t)))}}) :
               y \in {IF c.yamlFile # "" THEN loadFromYAML(c, fs, cfg.val, t)
                      ELSE [v |-> cfg.val, err |-> Nil, log |-> <<>>]}})

Load(c, e, fs, cfg, t) ==
    IF cfg.shape = "nil"
    THEN [v |-> cfg.val, err |-> Errorf("config cannot be nil"), log |-> <<>>]
    ELSE IF ArgKind(cfg) # "ptr" \/ ArgElemKind(cfg) # "struct"
    THEN [v |-> cfg.val, err |-> Errorf("config must be a pointer to struct"), log |-> <<>>]
    ELSE Only({IF y.err # Nil THEN WrapErr(Frame("failed to load YAML"), y)
               ELSE PrependLog(y.log, WrapErr(Frame("failed to load from env"),
                                              loadFromEnv(c, e, y.v, t))) :
               y \in {IF c.yamlFile # "" THEN loadFromYAML(c, fs, cfg.val, t)
                      ELSE [v |-> cfg.val, err |-> Nil, log |-> <<>>]}})

(***************************************************************************)
(* Validate: [err, panic], panic the run-time panic's message or "".       *)
(***************************************************************************)
\* whether Go's == is defined on values of the type
RECURSIVE Comparable(_)
Comparable(t) ==
    IF t.kind \in {"slice", "map", "func"} THEN FALSE
    ELSE IF IsNestedStruct(t) THEN \A i \in 1..Len(t.fields) : Comparable(t.fields[i].type)
    ELSE TRUE

NilKinds == {"slice", "map", "ptr", "interface", "chan", "func"}

\* [zero, panic]
isZeroValue(v, t) ==
    IF t.kind = "string" THEN [zero |-> v = <<>>, panic |-> ""]
    ELSE IF t.kind = "bool" THEN [zero |-> ~v, panic |-> ""]
    ELSE IF t.kind \in IntKinds
    THEN [zero |-> IF IsDuration(t) THEN IsZeroDuration(v) ELSE v = 0, panic |-> ""]
    ELSE IF t.kind \in UintKinds THEN [zero |-> v = 0, panic |-> ""]
    ELSE IF t.kind \in FloatKinds THEN [zero |-> IsZeroFloat(v), panic |-> ""]
    ELSE IF t.kind \in NilKinds THEN [zero |-> v.nil, panic |-> ""]
    ELSE IF t.kind = "struct"
    THEN IF Comparable(t) THEN [zero |-> v = Zero(t), panic |-> ""]
         ELSE [zero |-> FALSE, panic |-> "comparing uncomparable type"]
    ELSE [zero |-> FALSE, panic |-> ""]

\* buildFieldPath without the prefix
buildFieldPath_NameOnly(prefix, fieldName) == fieldName

buildFieldPath(prefix, fieldName) ==
    IF prefix = <<>> THEN fieldName ELSE prefix \o <<".">> \o fieldName

RequiredFrame(fieldPath) == [Frame("required field is empty") EXCEPT !.field = fieldPath]

RECURSIVE validateStructFrom(_, _, _, _)
validateStructFrom(v, t, prefix, i) ==
    IF i > Len(t.fields) THEN [err |-> Nil, panic |-> ""]
    ELSE LET f == t.fields[i]
             field == v[i]
             z == IF f.required THEN isZeroValue(field, f.type)
                  ELSE [zero |-> FALSE, panic |-> ""]
             newPrefix == buildFieldPath(prefix, f.name)
         IN  IF z.panic # "" THEN [err |-> Nil, panic |-> z.panic]
             ELSE IF z.zero THEN [err |-> <<RequiredFrame(newPrefix)>>, panic |-> ""]
             ELSE LET nested ==
                          IF IsNestedStruct(f.type)
                          THEN validateStructFrom(field, f.type, newPrefix, 1)
                          ELSE IF IsStructPointer(f.type) /\ ~field.nil
                          THEN validateStructFrom(field.elem, f.type.elem, newPrefix, 1)
                          ELSE [err |-> Nil, panic |-> ""]
                  IN  IF nested.err # Nil \/ nested.panic # "" THEN nested
                      ELSE validateStructFrom(v, t, prefix, i + 1)

validateStruct(v, t, prefix) == validateStructFrom(v, t, prefix, 1)

Validate(cfg, t) ==
    IF cfg.shape \in {"ptr", "value"} THEN validateStruct(cfg.val, t, <<>>)
    ELSE [err |-> Nil, panic |-> "reflect: call on a value that is not a struct"]

(***************************************************************************)
(* The package-level functions and MustLoad.  The functions build their    *)
(* own binder from the options they are passed; each returns               *)
(* [v, err, log, panic], panic the chain of messages of the panic value    *)
(* (Nil when the call returns).                                            *)
(***************************************************************************)
Returned(r) == [v |-> r.v, err |-> r.err, log |-> r.log, panic |-> Nil]

Panicked(cfg, msg) == [v |-> cfg.val, err |-> Nil, log |-> <<>>, panic |-> Errorf(msg)]

LoadFromFile(path, e, fs, cfg, t, opts) ==
    Returned(Load(New(<<WithYAMLFile(path)>> \o opts), e, fs, cfg, t))

\* LoadFromEnv calling Load on its binder
LoadFromEnv_ViaLoad(e, fs, cfg, t, opts) == Returned(Load(New(opts), e, fs, cfg, t))

\* loadFromEnv takes reflect.ValueOf(cfg).Elem() and its Type, and processStruct
\* its NumField, whatever cfg is; fs is the file system, which it does not read
LoadFromEnv(e, fs, cfg, t, opts) ==
    IF cfg.shape = "ptr" THEN Returned(loadFromEnv(New(opts), e, cfg.val, t))
    ELSE IF cfg.shape = "nil"
    THEN Panicked(cfg, "reflect: call of reflect.Value.Elem on zero Value")
    ELSE IF cfg.shape = "value"
    THEN Panicked(cfg, "reflect: call of reflect.Value.Elem on struct Value")
    ELSE IF cfg.shape = "nilptr"
    THEN Panicked(cfg, "reflect: call of reflect.Value.Type on zero Value")
    ELSE Panicked(cfg, "reflect: call of reflect.Value.NumField on string Value")

\* MustLoad returning when Load fails
MustLoad_ErrorSwallowed(c, e, fs, cfg, t) == Returned([Load(c, e, fs, cfg, t) EXCEPT !.err = Nil])

MustLoad(c, e, fs, cfg, t) ==
    Only({[v |-> r.v, err |-> Nil, log |-> r.log,
           panic |-> IF r.err # Nil THEN Wrap(Frame("failed to load configuration"), r.err)
                     ELSE Nil] :
          r \in {Load(c, e, fs, cfg, t)}})

(***************************************************************************)
(* The targets of the model.  TestConfig and its parts are the types of    *)
(* the repository's tests; ClusterConfig nests a nullable record in a      *)
(* nullable record; KindsConfig has a leaf of every kind the coercion      *)
(* switch names, and of kinds it does not.                                 *)
(*                                                                         *)
(*   type NodeConfig struct {                                              *)
(*       Host string       `yaml:"host" required:"true"`                   *)
(*       Auth *Credentials `yaml:"auth"`                                   *)
(*   }                                                                     *)
(*   type ClusterConfig struct {                                           *)
(*       Name    string      `yaml:"name"`                                 *)
(*       Primary *NodeConfig `yaml:"primary"`                              *)
(*   }                                                                     *)
(*   type KindsConfig struct {                                             *)
(*       Ratio    float64           `yaml:"ratio"`                         *)
(*       Limit    uint              `yaml:"limit"`                         *)
(*       Level    int8              `yaml:"level" required:"true"`         *)
(*       Started  time.Time         `yaml:"started"`                       *)
(*       Debug    bool              `yaml:"debug"`                         *)
(*       Wait     time.Duration     `yaml:"wait"`                          *)
(*       Labels   map[string]string `yaml:"labels"`                        *)
(*       Servers  []ServerConfig    `yaml:"servers"`                       *)
(*       Count    *int              `yaml:"count"`                         *)
(*       Backup   **Credentials     `yaml:"backup"`                        *)
(*       Features FeatureFlags      `yaml:"features" required:"true"`      *)
(*       Primary  *NodeConfig       `yaml:"primary"`                       *)
(*   }                                                                     *)
(***************************************************************************)
NodeConfig ==
    StructOf("NodeConfig",
        << Field(N.Host, Basic("string"), TRUE, "host"),
           Field(N.Auth, PtrTo(Credentials), FALSE, "auth") >>)

ClusterConfig ==
    StructOf("ClusterConfig",
        << Field(N.Name, Basic("string"), FALSE, "name"),
           Field(N.Primary, PtrTo(NodeConfig), FALSE, "primary") >>)

KindsConfig ==
    StructOf("KindsConfig",
        << Field(N.Ratio, Basic("float64"), FALSE, "ratio"),
           Field(N.Limit, Basic("uint"), FALSE, "limit"),
           Field(N.Level, Basic("int8"), TRUE, "level"),
           Field(N.Started, TimeType, FALSE, "started"),
           Field(N.Debug, Basic("bool"), FALSE, "debug"),
           Field(N.Wait, DurationType, FALSE, "wait"),
           Field(N.Labels, Basic("map"), FALSE, "labels"),
           Field(N.Servers, SliceOf(ServerConfig), FALSE, "servers"),
           Field(N.Count, PtrTo(Basic("int")), FALSE, "count"),
           Field(N.Backup, PtrTo(PtrTo(Credentials)), FALSE, "backup"),
           Field(N.Features, FeatureFlags, TRUE, "features"),
           Field(N.Primary, PtrTo(NodeConfig), FALSE, "primary") >>)

TypeNames == {"TestConfig", "ClusterConfig", "KindsConfig"}

TypeOf(n) ==
    IF n = "TestConfig" THEN TestConfig
    ELSE IF n = "ClusterConfig" THEN ClusterConfig
    ELSE KindsConfig

(***************************************************************************)
(* The inputs of the model: option lists, environment variables, files.    *)
(***************************************************************************)
MYAPP == <<"M", "Y", "A", "P", "P">>

CustomMapping == (N.Host :> <<"C", "U", "S", "T", "O", "M", "_", "H", "O", "S", "T">>) @@ (N.Port :> <<"C", "U", "S", "T", "O", "M", "_", "P", "O", "R", "T">>)

ConfigPath == "config.yaml"

OptionLists ==
    { <<>>,
      <<WithEnvPrefix(MYAPP)>>,
      <<WithEnvPrefix(<<"m", "y", "a", "p", "p">>)>>,
      <<WithEnvMapping(CustomMapping)>>,
      <<WithEnvPrefix(MYAPP), WithEnvMapping(CustomMapping)>>,
      <<WithYAMLFile(ConfigPath)>>,
      <<WithYAMLFile(ConfigPath), WithEnvPrefix(MYAPP)>>,
      <<WithYAMLFile(ConfigPath), WithEnvMapping(CustomMapping)>> }

\* the variables a test may set, <<name, value>>, for each target type
EnvChoices(n) ==
    IF n = "TestConfig" THEN
     { <<<<"S", "E", "R", "V", "E", "R", "_", "H", "O", "S", "T">>, <<"e", "n", "v", "-", "h", "o", "s", "t">>>>,
       <<<<"S", "E", "R", "V", "E", "R", "_", "H", "O", "S", "T">>, <<>>>>,
       <<<<"S", "E", "R", "V", "E", "R", "_", "P", "O", "R", "T">>, <<"8", "0", "8", "0">>>>,
       <<<<"S", "E", "R", "V", "E", "R", "_", "P", "O", "R", "T">>, <<"n", "o", "t", "-", "a", "-", "n", "u", "m", "b", "e", "r">>>>,
       <<<<"S", "E", "R", "V", "E", "R", "_", "T", "L", "S">>, <<"t", "r", "u", "e">>>>,
       <<<<"S", "E", "R", "V", "E", "R", "_", "T", "L", "S">>, <<"i", "n", "v", "a", "l", "i", "d", "-", "b", "o", "o", "l">>>>,
       <<<<"D", "A", "T", "A", "B", "A", "S", "E", "_", "U", "R", "L">>, <<"m", "y", "s", "q", "l", ":", "/", "/", "l", "o", "c", "a", "l", "h", "o", "s", "t", "/", "t", "e", "s", "t">>>>,
       <<<<"D", "A", "T", "A", "B", "A", "S", "E", "_", "C", "R", "E", "D", "E", "N", "T", "I", "A", "L", "S", "_", "U", "S", "E", "R", "N", "A", "M", "E">>, <<"a", "d", "m", "i", "n">>>>,
       <<<<"R", "E", "D", "I", "S", "_", "H", "O", "S", "T">>, <<"r", "e", "d", "i", "s", "-", "s", "e", "r", "v", "e", "r">>>>,
       <<<<"R", "E", "D", "I", "S", "_", "H", "O", "S", "T">>, <<>>>>,
       <<<<"R", "E", "D", "I", "S", "_", "D", "B">>, <<"2">>>>,
       <<<<"F", "E", "A", "T", "U", "R", "E", "S", "_", "A", "L", "L", "O", "W", "E", "D", "_", "I", "_", "P", "S">>, <<"1", "9", "2", ".", "1", "6", "8", ".", "1", ".", "1", ",", " ", "1", "0", ".", "0", ".", "0", ".", "1">>>>,
       <<<<"T", "I", "M", "E", "O", "U", "T">>, <<"5", "m">>>>,
       <<<<"T", "I", "M", "E", "O", "U", "T">>, <<"i", "n", "v", "a", "l", "i", "d", "-", "d", "u", "r", "a", "t", "i", "o", "n">>>>,
       <<<<"M", "Y", "A", "P", "P", "_", "S", "E", "R", "V", "E", "R", "_", "H", "O", "S", "T">>, <<"e", "x", "a", "m", "p", "l", "e", ".", "c", "o", "m">>>>,
       <<<<"M", "Y", "A", "P", "P", "_", "S", "E", "R", "V", "E", "R", "_", "P", "O", "R", "T">>, <<"9", "0", "0", "0">>>>,
       <<<<"M", "Y", "A", "P", "P", "_", "R", "E", "D", "I", "S", "_", "P", "O", "R", "T">>, <<"6", "3", "7", "9">>>>,
       <<<<"C", "U", "S", "T", "O", "M", "_", "H", "O", "S", "T">>, <<"c", "u", "s", "t", "o", "m", "-", "h", "o", "s", "t">>>>,
       <<<<"C", "U", "S", "T", "O", "M", "_", "P", "O", "R", "T">>, <<"9", "0", "9", "0">>>>,
       <<<<"M", "Y", "A", "P", "P", "_", "C", "U", "S", "T", "O", "M", "_", "H", "O", "S", "T">>, <<"p", "r", "e", "f", "i", "x", "e", "d", "-", "c", "u", "s", "t", "o", "m">>>>,
       <<<<"H", "O", "S", "T">>, <<"b", "a", "r", "e", "-", "h", "o", "s", "t">>>> }
    ELSE IF n = "ClusterConfig" THEN
     { <<<<"N", "A", "M", "E">>, <<"m", "a", "i", "n">>>>,
       <<<<"P", "R", "I", "M", "A", "R", "Y", "_", "H", "O", "S", "T">>, <<"n", "o", "d", "e", "-", "1">>>>,
       <<<<"P", "R", "I", "M", "A", "R", "Y", "_", "A", "U", "T", "H", "_", "U", "S", "E", "R", "N", "A", "M", "E">>, <<"r", "o", "o", "t">>>>,
       <<<<"P", "R", "I", "M", "A", "R", "Y", "_", "A", "U", "T", "H", "_", "P", "A", "S", "S", "W", "O", "R", "D">>, <<"s", "e", "c", "r", "e", "t">>>>,
       <<<<"P", "R", "I", "M", "A", "R", "Y", "_", "A", "U", "T", "H", "_", "P", "A", "S", "S", "W", "O", "R", "D">>, <<>>>>,
       <<<<"M", "Y", "A", "P", "P", "_", "P", "R", "I", "M", "A", "R", "Y", "_", "A", "U", "T", "H", "_", "U", "S", "E", "R", "N", "A", "M", "E">>, <<"r", "o", "o", "t">>>>,
       <<<<"M", "Y", "A", "P", "P", "_", "N", "A", "M", "E">>, <<"m", "a", "i", "n">>>>,
       <<<<"C", "U", "S", "T", "O", "M", "_", "H", "O", "S", "T">>, <<"c", "u", "s", "t", "o", "m", "-", "h", "o", "s", "t">>>>,
       <<<<"A", "U", "T", "H", "_", "U", "S", "E", "R", "N", "A", "M", "E">>, <<"s", "t", "r", "a", "y">>>>,
       <<<<"P", "R", "I", "M", "A", "R", "Y">>, <<"s", "t", "r", "a", "y">>>> }
    ELSE
     { <<<<"R", "A", "T", "I", "O">>, <<"0", ".", "7", "5">>>>,
       <<<<"R", "A", "T", "I", "O">>, <<"1", ".", "2", ".", "3">>>>,
       <<<<"L", "I", "M", "I", "T">>, <<"1", "0">>>>,
       <<<<"L", "I", "M", "I", "T">>, <<"-", "1">>>>,
       <<<<"L", "E", "V", "E", "L">>, <<"7">>>>,
       <<<<"L", "E", "V", "E", "L">>, <<"s", "e", "v", "e", "n">>>>,
       <<<<"S", "T", "A", "R", "T", "E", "D">>, <<"2", "0", "2", "4", "-", "0", "1", "-", "0", "2", "T", "1", "5", ":", "0", "4", ":", "0", "5", "Z">>>>,
       <<<<"S", "T", "A", "R", "T", "E", "D">>, <<"2", "0", "2", "4", "-", "0", "1", "-", "0", "2">>>>,
       <<<<"S", "T", "A", "R", "T", "E", "D">>, <<"y", "e", "s", "t", "e", "r", "d", "a", "y">>>>,
       <<<<"D", "E", "B", "U", "G">>, <<"1">>>>,
       <<<<"D", "E", "B", "U", "G">>, <<"y", "e", "s">>>>,
       <<<<"W", "A", "I", "T">>, <<"1", "h", "3", "0", "m">>>>,
       <<<<"W", "A", "I", "T">>, <<"9", "0">>>>,
       <<<<"L", "A", "B", "E", "L", "S">>, <<"e", "n", "v", "=", "p", "r", "o", "d">>>>,
       <<<<"L", "A", "B", "E", "L", "S">>, <<>>>>,
       <<<<"S", "E", "R", "V", "E", "R", "S">>, <<"a", ",", "b">>>>,
       <<<<"C", "O", "U", "N", "T">>, <<"3">>>>,
       <<<<"C", "O", "U", "N", "T">>, <<"t", "h", "r", "e", "e">>>>,
       <<<<"B", "A", "C", "K", "U", "P">>, <<"u", "s", "e", "r">>>>,
       <<<<"F", "E", "A", "T", "U", "R", "E", "S", "_", "A", "L", "L", "O", "W", "E", "D", "_", "I", "_", "P", "S">>, <<"1", "0", ".", "0", ".", "0", ".", "1">>>> }

\* the documents config.yaml may hold (the first two are the tests')
DocOverride ==
    [server |-> [host |-> <<"y", "a", "m", "l", "-", "h", "o", "s", "t">>, port |-> 3000],
     database |-> [url |-> <<"p", "o", "s", "t", "g", "r", "e", "s", ":", "/", "/", "y", "a", "m", "l", "-", "d", "b", "/", "t", "e", "s", "t">>]]

DocFull ==
    [server |-> [host |-> <<"y", "a", "m", "l", "-", "h", "o", "s", "t">>, port |-> 3000, tls |-> FALSE],
     database |-> [url |-> <<"p", "o", "s", "t", "g", "r", "e", "s", ":", "/", "/", "y", "a", "m", "l", "-", "d", "b", "/", "t", "e", "s", "t">>, max_conns |-> 5,
                   timeout |-> ParseDuration(<<"1", "5", "s">>).v,
                   credentials |-> [username |-> <<"y", "a", "m", "l", "-", "u", "s", "e", "r">>, password |-> <<"y", "a", "m", "l", "-", "p", "a", "s", "s">>]],
     features |-> [enable_metrics |-> FALSE, enable_tracing |-> TRUE,
                   allowed_ips |-> <<<<"1", "9", "2", ".", "1", "6", "8", ".", "1", ".", "0">>, <<"1", "0", ".", "0", ".", "0", ".", "0">>>>],
     timeout |-> ParseDuration(<<"2", "m">>).v]

DocCluster ==
    [name |-> <<"y", "a", "m", "l", "-", "c", "l", "u", "s", "t", "e", "r">>,
     primary |-> [host |-> <<"y", "a", "m", "l", "-", "n", "o", "d", "e">>, auth |-> [username |-> <<"y", "a", "m", "l", "-", "u", "s", "e", "r">>]]]

DocClusterBare == [primary |-> [auth |-> [password |-> <<"y", "a", "m", "l", "-", "p", "a", "s", "s">>]]]

\* what decodes of "name: yaml-cluster" and "primary: {host: [a]}"
DocClusterMistyped == [name |-> <<"y", "a", "m", "l", "-", "c", "l", "u", "s", "t", "e", "r">>, primary |-> <<>>]

DocKinds ==
    [ratio |-> ParseFloat(<<"0", ".", "5">>).v, level |-> 3, debug |-> TRUE,
     wait |-> ParseDuration(<<"1", "0", "s">>).v, count |-> 1,
     features |-> [allowed_ips |-> <<<<"1", "0", ".", "0", ".", "0", ".", "0">>>>]]

DocKindsEmpty == [limit |-> 0, features |-> [allowed_ips |-> <<>>]]

Docs(n) ==
    IF n = "TestConfig" THEN {DocOverride, DocFull}
    ELSE IF n = "ClusterConfig" THEN {DocCluster, DocClusterBare}
    ELSE {DocKinds, DocKindsEmpty}

FileStates(n) ==
    {Unreadable, Malformed} \cup {DocFile(d) : d \in Docs(n)}
        \cup (IF n = "ClusterConfig" THEN {Mistyped(DocClusterMistyped)} ELSE {})

\* what Load may be passed
Shapes(n) ==
    IF n = "ClusterConfig" THEN {"ptr", "nil", "value", "ptrstring", "nilptr"} ELSE {"ptr"}

MaxEnv == 2

(***************************************************************************)
(* o4g_logger: the default logger of the package (global.go) and its       *)
(* constructor NewLogger (logger.go).  A logger is the address NewLogger   *)
(* allocated together with the configuration it was built from; goroutines *)
(* call Init and GetDefaultLogger, and sync.Once is modelled by its done   *)
(* flag and its mutex, one step per access.                                *)
(***************************************************************************)
NilLogger == [nil |-> TRUE]

\* the level names logrus.ParseLevel accepts
LevelNames == {"panic", "fatal", "error", "warn", "warning", "info", "debug", "trace"}

DefaultConfig == [Level |-> "info", Format |-> "text", Output |-> "stdout", ServiceName |-> "gatekeeper"]

\* the paths os.OpenFile can open for appending
WritablePaths == {"app.log"}

\* the configurations the callers of Init pass
LoggerConfigs ==
    { [Level |-> "info", Format |-> "text", Output |-> "stdout", ServiceName |-> "service1"],
      [Level |-> "debug", Format |-> "json", Output |-> "app.log", ServiceName |-> "service2"],
      [Level |-> "invalid", Format |-> "text", Output |-> "stdout", ServiceName |-> "service3"],
      [Level |-> "info", Format |-> "text", Output |-> "/no/such/dir/app.log", ServiceName |-> "service4"] }

\* NewLogger(config), allocating at address addr: [logger, err]
NewLogger(config, addr) ==
    IF config.Level \notin LevelNames
    THEN [logger |-> NilLogger, err |-> "invalid log level"]
    ELSE IF config.Output \notin {"stdout", "stderr"} \cup WritablePaths
    THEN [logger |-> NilLogger, err |-> "failed to open log file"]
    ELSE [logger |-> [nil |-> FALSE, addr |-> addr, config |-> config], err |-> ""]

NumGoroutines == 2

MaxCalls == 2

Goroutines == 1..NumGoroutines

\* a goroutine between two calls; calls lists the calls it completed, with what
\* they returned: [fn, config, ret] for Init and [fn, ret] for GetDefaultLogger
Idle == [pc |-> "idle", fn |-> "", config |-> DefaultConfig, err |-> "", synced |-> FALSE, calls |-> <<>>]

\* var ( defaultLogger *Logger; once sync.Once )
NoLogger ==
    /\ defaultLogger = NilLogger
    /\ once = [done |-> FALSE, m |-> 0]
    /\ goroutines = [g \in Goroutines |-> Idle]
    /\ built = <<>>

\* g calls Init(config): var err error, then once.Do
CallInit(g, config) ==
    /\ goroutines[g].pc = "idle"
    /\ Len(goroutines[g].calls) < MaxCalls
    /\ goroutines' = [goroutines EXCEPT ![g].pc = "Do", ![g].fn = "Init",
                                        ![g].config = config, ![g].err = ""]
    /\ UNCHANGED <<defaultLogger, once, built, configVars, resultVars>>

\* g calls GetDefaultLogger: the test defaultLogger == nil reads the variable with
\* no synchronisation, so that a goroutine that has not synchronised with the
\* writer may still read nil after the write
CallGetDefaultLogger(g) ==
    /\ goroutines[g].pc = "idle"
    /\ Len(goroutines[g].calls) < MaxCalls
    /\ \E seen \in {defaultLogger} \cup (IF goroutines[g].synced THEN {} ELSE {NilLogger}) :
           goroutines' = IF seen = NilLogger
                         THEN [goroutines EXCEPT ![g].pc = "Do", ![g].fn = "GetDefaultLogger",
                                                 ![g].config = DefaultConfig, ![g].err = ""]
                         ELSE [goroutines EXCEPT ![g].pc = "get", ![g].fn = "GetDefaultLogger"]
    /\ UNCHANGED <<defaultLogger, once, built, configVars, resultVars>>

\* once.Do: the fast path, if o.done.Load() == 0 { o.doSlow(f) }
OnceDo(g) ==
    /\ goroutines[g].pc = "Do"
    /\ goroutines' = IF once.done
                     THEN [goroutines EXCEPT ![g].pc = "return", ![g].synced = TRUE]
                     ELSE [goroutines EXCEPT ![g].pc = "doSlow"]
    /\ UNCHANGED <<defaultLogger, once, built, configVars, resultVars>>

\* doSlow that does not test done again under the lock
OnceLock_NoSecondTest(g) ==
    /\ goroutines[g].pc = "doSlow"
    /\ once.m = 0
    /\ once' = [once EXCEPT !.m = g]
    /\ goroutines' = [goroutines EXCEPT ![g].pc = "f", ![g].synced = TRUE]
    /\ UNCHANGED <<defaultLogger, built, configVars, resultVars>>

\* doSlow: o.m.Lock(), then the second test of done
OnceLock(g) ==
    /\ goroutines[g].pc = "doSlow"
    /\ once.m = 0
    /\ once' = [once EXCEPT !.m = g]
    /\ goroutines' = [goroutines EXCEPT ![g].pc = IF once.done THEN "unlock" ELSE "f",
                                        ![g].synced = TRUE]
    /\ UNCHANGED <<defaultLogger, built, configVars, resultVars>>

\* the function passed to once.Do: defaultLogger, err = NewLogger(config)
OnceRun(g) ==
    /\ goroutines[g].pc = "f"
    /\ LET r == NewLogger(goroutines[g].config, Len(built) + 1)
       IN  /\ defaultLogger' = r.logger
           /\ goroutines' = [goroutines EXCEPT ![g].pc = "store", ![g].err = r.err]
    /\ built' = Append(built, goroutines[g].config)
    /\ UNCHANGED <<once, configVars, resultVars>>

\* doSlow: defer o.done.Store(1)
OnceStore(g) ==
    /\ goroutines[g].pc = "store"
    /\ once' = [once EXCEPT !.done = TRUE]
    /\ goroutines' = [goroutines EXCEPT ![g].pc = "unlock"]
    /\ UNCHANGED <<defaultLogger, built, configVars, resultVars>>

\* doSlow: defer o.m.Unlock()
OnceUnlock(g) ==
    /\ goroutines[g].pc = "unlock"
    /\ once' = [once EXCEPT !.m = 0]
    /\ goroutines' = [goroutines EXCEPT ![g].pc = "return"]
    /\ UNCHANGED <<defaultLogger, built, configVars, resultVars>>

\* Init returns err: to the caller, or to GetDefaultLogger, which drops it
InitReturn(g) ==
    /\ goroutines[g].pc = "return"
    /\ goroutines' = IF goroutines[g].fn = "Init"
                     THEN [goroutines EXCEPT ![g].pc = "idle",
                               ![g].calls = Append(@, [fn |-> "Init", config |-> goroutines[g].config,
                                                    ret |-> goroutines[g].err])]
                     ELSE [goroutines EXCEPT ![g].pc = "get"]
    /\ UNCHANGED <<defaultLogger, once, built, configVars, resultVars>>

\* GetDefaultLogger: return defaultLogger
GetDefaultLoggerReturn(g) ==
    /\ goroutines[g].pc = "get"
    /\ goroutines' = [goroutines EXCEPT ![g].pc = "idle",
                          ![g].calls = Append(@, [fn |-> "GetDefaultLogger", ret |-> defaultLogger])]
    /\ UNCHANGED <<defaultLogger, once, built, configVars, resultVars>>

(***************************************************************************)
(* result: the generic container Result[T] (result.go), here with T = int. *)
(* An error is nil or the address errors.New allocated.                    *)
(***************************************************************************)
NilError == [nil |-> TRUE]

NoResultValue ==
    /\ res = [value |-> 0, err |-> NilError]
    /\ ret = <<>>

\* the errors the tests make with errors.New, by address, and the nil error
MaxErrors == 3

Errors == {NilError} \cup {[nil |-> FALSE, addr |-> a] : a \in 1..MaxErrors}

MaxValue == 3

Values == (0 - MaxValue + 1)..MaxValue

\* func Ok[T any](value T) Result[T]
result_Ok(value) == [value |-> value, err |-> NilError]

\* func Err[T any](err error) Result[T], with var zero T
result_Err(e) == [value |-> 0, err |-> e]

IsOk(r) == r.err = NilError

IsErr(r) == r.err # NilError

\* a call with its argument or what it returned: an int, an error, a bool or a panic
Call(name, value, e, ok, panic) ==
    [call |-> name, value |-> value, err |-> e, ok |-> ok, panic |-> panic]

Unwrap(r) ==
    IF IsErr(r)
    THEN Call("Unwrap", 0, NilError, FALSE, "called Unwrap on an Err value")
    ELSE Call("Unwrap", r.value, NilError, FALSE, "")

UnwrapErr(r) ==
    IF IsOk(r)
    THEN Call("UnwrapErr", 0, NilError, FALSE, "called UnwrapErr on an Ok value")
    ELSE Call("UnwrapErr", 0, r.err, FALSE, "")

Expect(r, msg) ==
    IF IsErr(r)
    THEN Call("Expect", 0, NilError, FALSE, msg)
    ELSE Call("Expect", r.value, NilError, FALSE, "")

ExpectErr(r, msg) ==
    IF IsOk(r)
    THEN Call("ExpectErr", 0, NilError, FALSE, msg)
    ELSE Call("ExpectErr", 0, r.err, FALSE, "")

GetOrElse(r, defaultValue) ==
    IF IsOk(r)
    THEN Call("GetOrElse", r.value, NilError, FALSE, "")
    ELSE Call("GetOrElse", defaultValue, NilError, FALSE, "")

(***************************************************************************)
(* The state machine.  A run is one test: the binder is constructed, the   *)
(* test sets environment variables and writes config.yaml, calls Load on   *)
(* a target and then Validate.                                             *)
(*   pc       where the run is: "new", "setup", "loaded", "validated"      *)
(*   cfgType  the name of the target's type                                *)
(*   target   what the caller passes: [shape, val]                         *)
(*   binder   the Config                                                   *)
(*   env      the process environment: name -> value                       *)
(*   file     the file system: path -> file                                *)
(*   err      the error Load returned                                      *)
(*   log      the file and environment reads Load made                     *)
(*   result   what Validate returned: [err, panic]                         *)
(*   str      the argument of toSnakeCase (SpecSnake)                      *)
(*   stack    the call stack of the overlay (SpecWalk)                     *)
(*   defaultLogger, once   the package variables of o4g_logger             *)
(*   goroutines   what each goroutine using the logger is doing            *)
(*   built    the configurations NewLogger was called with                 *)
(*   res, ret   a Result and what the last call on it returned             *)
(***************************************************************************)
NoResult == [err |-> Nil, panic |-> ""]

Init ==
    /\ pc = "new"
    /\ cfgType \in TypeNames
    /\ target \in {[shape |-> s, val |-> Zero(TypeOf(cfgType))] : s \in Shapes(cfgType)}
    /\ binder = New(<<>>)
    /\ env = EmptyMapping
    /\ file = [p \in {ConfigPath} |-> Absent]
    /\ err = Nil
    /\ log = <<>>
    /\ result = NoResult
    /\ str = <<>>
    /\ stack = <<>>
    /\ NoLogger
    /\ NoResultValue

CallNew(opts) ==
    /\ pc = "new"
    /\ binder' = New(opts)
    /\ pc' = "setup"
    /\ UNCHANGED <<cfgType, target, env, file, err, log, result, str, stack, loggerVars, resultVars>>

Setenv(name, value) ==
    /\ pc = "setup"
    /\ Cardinality(DOMAIN env) < MaxEnv
    /\ name \notin DOMAIN env
    /\ env' = (name :> value) @@ env
    /\ UNCHANGED <<pc, cfgType, target, binder, file, err, log, result, str, stack, loggerVars, resultVars>>

WriteFile(f) ==
    /\ pc = "setup"
    /\ binder.yamlFile # ""
    /\ file[binder.yamlFile].st = "absent"
    /\ file' = [file EXCEPT ![binder.yamlFile] = f]
    /\ UNCHANGED <<pc, cfgType, target, binder, env, err, log, result, str, stack, loggerVars, resultVars>>

\* Load that clears the YAML path of the binder once the file is loaded
CallLoad_ConsumesPath ==
    /\ pc = "setup"
    /\ LET r == Load(binder, env, file, target, TypeOf(cfgType))
       IN  /\ target' = [target EXCEPT !.val = r.v]
           /\ err' = r.err
           /\ log' = r.log
    /\ binder' = [binder EXCEPT !.yamlFile = ""]
    /\ pc' = "loaded"
    /\ UNCHANGED <<cfgType, env, file, result, str, stack, loggerVars, resultVars>>

CallLoad ==
    /\ pc = "setup"
    /\ LET r == Load(binder, env, file, target, TypeOf(cfgType))
       IN  /\ target' = [target EXCEPT !.val = r.v]
           /\ err' = r.err
           /\ log' = r.log
    /\ pc' = "loaded"
    /\ UNCHANGED <<cfgType, binder, env, file, result, str, stack, loggerVars, resultVars>>

\* Validate allocating the nil nullable records of the target to walk them
CallValidate_FillsNilRecords ==
    /\ pc = "loaded"
    /\ result' = Validate(target, TypeOf(cfgType))
    /\ target' = [target EXCEPT !.val =
                      [i \in 1..Len(TypeOf(cfgType).fields) |->
                          IF IsStructPointer(TypeOf(cfgType).fields[i].type) /\ @[i].nil
                          THEN PtrVal(Zero(TypeOf(cfgType).fields[i].type.elem))
                          ELSE @[i]]]
    /\ pc' = "validated"
    /\ UNCHANGED <<cfgType, binder, env, file, err, log, str, stack, loggerVars, resultVars>>

CallValidate ==
    /\ pc = "loaded"
    /\ result' = Validate(target, TypeOf(cfgType))
    /\ pc' = "validated"
    /\ UNCHANGED <<cfgType, target, binder, env, file, err, log, str, stack, loggerVars, resultVars>>

Next ==
    \/ \E opts \in OptionLists : CallNew(opts)
    \/ \E nv \in EnvChoices(cfgType) : Setenv(nv[1], nv[2])
    \/ \E f \in FileStates(cfgType) : WriteFile(f)
    \/ CallLoad
    \/ CallValidate

Spec == Init /\ [][Next]_vars

(***************************************************************************)
(* toSnakeCase on its own: the run calls it on one name, on binders of     *)
(* every configuration, and may call it again.  Here result is the string  *)
(* the call returned.                                                      *)
(***************************************************************************)
\* the inputs of TestToSnakeCase
TestNames ==
    { <<"C", "a", "m", "e", "l", "C", "a", "s", "e">>, <<"X", "M", "L", "H", "t", "t", "p", "R", "e", "q", "u", "e", "s", "t">>, <<"I", "D">>, <<"U", "s", "e", "r", "I", "D">>, <<"H", "T", "T", "P", "S", "e", "r", "v", "e", "r">>, <<"s", "i", "m", "p", "l", "e">>, <<>>,
      <<"T", "L", "S">>, <<"U", "R", "L">>, <<"A", "l", "l", "o", "w", "e", "d", "I", "P", "s">> }

NameAlphabet == {"A", "B", "c", "7"}

MaxNameLen == 3

ShortNames == UNION {[1..n -> NameAlphabet] : n \in 1..MaxNameLen}

InitSnake ==
    /\ pc = "snake"
    /\ str \in TestNames \cup ShortNames
    /\ stack = <<>>
    /\ NoLogger
    /\ NoResultValue
    /\ binder \in {New(opts) : opts \in OptionLists}
    /\ cfgType = "TestConfig"
    /\ target = [shape |-> "ptr", val |-> Zero(TestConfig)]
    /\ env = EmptyMapping
    /\ file = [p \in {ConfigPath} |-> Absent]
    /\ err = Nil
    /\ log = <<>>
    /\ result = <<>>

CallToSnakeCase ==
    /\ pc \in {"snake", "snaked"}
    /\ result' = toSnakeCase(str)
    /\ pc' = "snaked"
    /\ UNCHANGED <<cfgType, target, binder, env, file, err, log, str, stack, loggerVars, resultVars>>

NextSnake == CallToSnakeCase

SpecSnake == InitSnake /\ [][NextSnake]_vars

(***************************************************************************)
(* Integer leaves.  A run is one Load on a record with one integer field,  *)
(*   type IntConfig struct { Port K }                                      *)
(* for an integer kind K (cfgType), with PORT set to a numeral or to a     *)
(* value that is none; Port holds 0 or 5 before the call.  The values     *)
(* that parse stay small enough to be computed with; the 64-bit limits are *)
(* met by values that do not parse.                                        *)
(***************************************************************************)
IntConfig(kind) == StructOf("IntConfig", <<Field(N.Port, Basic(kind), FALSE, "port")>>)

IntLeafKinds == {"int8", "int16", "int", "int64", "uint8", "uint16", "uint", "uint64"}

PORT == <<"P", "O", "R", "T">>

IntValues ==
    { <<"0">>, <<"5">>, <<"1", "2", "7">>, <<"1", "2", "8">>, <<"2", "5", "5">>, <<"2", "5", "6">>, <<"3", "0", "0">>, <<"0", "3", "0", "0">>, <<"3", "2", "7", "6", "7">>, <<"3", "2", "7", "6", "8">>, <<"4", "0", "0", "0", "0">>,
      <<"6", "5", "5", "3", "5">>, <<"6", "5", "5", "3", "6">>, <<"7", "0", "0", "0", "0">>, <<"1", "0", "0", "0", "0", "0", "0">>,
      <<"-", "1">>, <<"-", "0">>, <<"-", "1", "2", "8">>, <<"-", "1", "2", "9">>, <<"-", "3", "0", "0">>, <<"-", "3", "2", "7", "6", "8">>, <<"-", "3", "2", "7", "6", "9">>, <<"-", "7", "0", "0", "0", "0">>,
      <<"+", "5">>, <<"+", "3", "0", "0">>,
      <<"-", "9", "2", "2", "3", "3", "7", "2", "0", "3", "6", "8", "5", "4", "7", "7", "5", "8", "0", "9">>, <<"1", "8", "4", "4", "6", "7", "4", "4", "0", "7", "3", "7", "0", "9", "5", "5", "1", "6", "1", "6">>,
      <<"9", "9", "9", "9", "9", "9", "9", "9", "9", "9", "9", "9", "9", "9", "9", "9", "9", "9", "9", "9">>,
      <<"1", "2", "a">>, <<"a", "b", "c">>, <<"-">>, <<"1", ".", "5">>, <<" ", "7">> }

InitInts ==
    /\ pc = "setup"
    /\ cfgType \in IntLeafKinds
    /\ str \in IntValues
    /\ target \in {[shape |-> "ptr", val |-> <<old>>] : old \in {0, 5}}
    /\ binder = New(<<>>)
    /\ env = PORT :> str
    /\ file = [p \in {ConfigPath} |-> Absent]
    /\ err = Nil
    /\ log = <<>>
    /\ result = NoResult
    /\ stack = <<>>
    /\ NoLogger
    /\ NoResultValue

\* err := New().Load(&cfg)
CallLoadInt ==
    /\ pc = "setup"
    /\ LET r == Load(binder, env, file, target, IntConfig(cfgType))
       IN  /\ target' = [target EXCEPT !.val = r.v]
           /\ err' = r.err
           /\ log' = r.log
    /\ pc' = "loaded"
    /\ UNCHANGED <<cfgType, binder, env, file, result, str, stack, loggerVars, resultVars>>

NextInts == CallLoadInt

SpecInts == InitInts /\ [][NextInts]_vars

(***************************************************************************)
(* Slice leaves.  A run is one Load on a record with one slice field,      *)
(*   type SliceConfig struct { Port []E `yaml:"port"` }                    *)
(* for an element type E (cfgType), with PORT set to a comma-separated     *)
(* list; config.yaml is absent or holds a sequence for the field.          *)
(***************************************************************************)
SliceElemKinds == {"string", "bool", "int", "int8", "uint8", "*int"}

ElemType(kind) == IF kind = "*int" THEN PtrTo(Basic("int")) ELSE Basic(kind)

SliceConfig(kind) ==
    StructOf("SliceConfig", <<Field(N.Port, SliceOf(ElemType(kind)), FALSE, "port")>>)

\* the sequence config.yaml holds under "port"
DocPorts(kind) ==
    IF kind = "string" THEN [port |-> <<<<"a">>, <<"b">>>>]
    ELSE IF kind = "bool" THEN [port |-> <<TRUE, FALSE>>]
    ELSE [port |-> <<80, 44>>]

SliceValues ==
    { <<"1", ",", "2", ",", "3">>, <<"1", ",", "x", ",", "3">>, <<"x">>, <<"1", ",", "2", ",", "x">>, <<" ", "1", " ", ",", " ", "2", " ">>, <<"1", ",", ",", "3">>, <<"1", ",", " ", "2", ",", "t", "h", "r", "e", "e", ",", "4", ",", "x">>, <<",">>,
      <<"t", "r", "u", "e", ",", "f", "a", "l", "s", "e">>, <<"t", "r", "u", "e", ",", "m", "a", "y", "b", "e">>, <<"3", "0", "0", ",", "1">>, <<"1", ",", "3", "0", "0">>, <<"-", "1", ",", "2">>, <<"1", ",", "-", "2">>, <<"a", ",", "b">>, <<"7">> }

InitSlices ==
    /\ pc = "setup"
    /\ cfgType \in SliceElemKinds
    /\ str \in SliceValues
    /\ target = [shape |-> "ptr", val |-> <<NilSlice>>]
    /\ binder = New(<<WithYAMLFile(ConfigPath)>>)
    /\ env = PORT :> str
    /\ file \in {[p \in {ConfigPath} |-> f] : f \in {Absent, DocFile(DocPorts(cfgType))}}
    /\ err = Nil
    /\ log = <<>>
    /\ result = NoResult
    /\ stack = <<>>
    /\ NoLogger
    /\ NoResultValue

\* err := New(WithYAMLFile("config.yaml")).Load(&cfg)
CallLoadSlice ==
    /\ pc = "setup"
    /\ LET r == Load(binder, env, file, target, SliceConfig(cfgType))
       IN  /\ target' = [target EXCEPT !.val = r.v]
           /\ err' = r.err
           /\ log' = r.log
    /\ pc' = "loaded"
    /\ UNCHANGED <<cfgType, binder, env, file, result, str, stack, loggerVars, resultVars>>

NextSlices == CallLoadSlice

SpecSlices == InitSlices /\ [][NextSlices]_vars

(***************************************************************************)
(* Claims.                                                                 *)
(***************************************************************************)
\* the derivations the specification lists: <<field name, upper-cased result>>
SnakeTable ==
    { <<<<"C", "a", "m", "e", "l", "C", "a", "s", "e">>, <<"C", "A", "M", "E", "L", "_", "C", "A", "S", "E">>>>, <<<<"X", "M", "L", "H", "t", "t", "p", "R", "e", "q", "u", "e", "s", "t">>, <<"X", "M", "L", "_", "H", "T", "T", "P", "_", "R", "E", "Q", "U", "E", "S", "T">>>>,
      <<<<"I", "D">>, <<"I", "D">>>>, <<<<"U", "s", "e", "r", "I", "D">>, <<"U", "S", "E", "R", "_", "I", "D">>>>, <<<<"H", "T", "T", "P", "S", "e", "r", "v", "e", "r">>, <<"H", "T", "T", "P", "_", "S", "E", "R", "V", "E", "R">>>>,
      <<<<>>, <<>>>>, <<<<"T", "L", "S">>, <<"T", "L", "S">>>>, <<<<"U", "R", "L">>, <<"U", "R", "L">>>>,
      <<<<"A", "l", "l", "o", "w", "e", "d", "I", "P", "s">>, <<"A", "L", "L", "O", "W", "E", "D", "_", "I", "_", "P", "S">>>> }

(* C7: the snake-case derivation gives, upper-cased, exactly the listed     *)
(* results (CamelCase -> CAMEL_CASE, ..., AllowedIPs -> ALLOWED_I_PS), the  *)
(* same on a binder of any configuration, and the call writes no state:    *)
(* the binder, the environment, the file and the target are as before it.  *)
C7_SnakeCaseTable ==
    pc = "snaked" =>
        /\ \A row \in SnakeTable : str = row[1] => ToUpper(result) = row[2]
        /\ binder \in {New(opts) : opts \in OptionLists}
        /\ env = EmptyMapping
        /\ file = [p \in {ConfigPath} |-> Absent]
        /\ target = [shape |-> "ptr", val |-> Zero(TestConfig)]
        /\ log = <<>>

\* toSnakeCase returned for XMLHttpRequest, on a binder with a prefix and a mapping
C7_Witness ==
    /\ pc = "snaked"
    /\ str = <<"X", "M", "L", "H", "t", "t", "p", "R", "e", "q", "u", "e", "s", "t">>
    /\ result = <<"x", "m", "l", "_", "h", "t", "t", "p", "_", "r", "e", "q", "u", "e", "s", "t">>
    /\ binder.envPrefix = MYAPP
    /\ binder.envMapping = CustomMapping

(***************************************************************************)
(* The package-level functions and MustLoad on their own.  A run is one    *)
(* call: the test has set at most one variable and written its files, and  *)
(* calls LoadFromFile or LoadFromEnv with an option list, or MustLoad on   *)
(* the binder made with that list.  Here result is the call: the option    *)
(* list, the function called, the path passed and the panic value; pc is   *)
(* "setup" before the call and "fileloaded", "envloaded" or "mustloaded"   *)
(* after it.  The test may also call Load and Validate, as in Spec, and    *)
(* then use the binder again for a second Load ("reloaded").               *)
(***************************************************************************)
OtherPath == "other.yaml"

Paths == {ConfigPath, OtherPath}

\* the document of other.yaml
OtherDoc(n) ==
    IF n = "TestConfig" THEN DocFull
    ELSE IF n = "ClusterConfig" THEN DocClusterBare
    ELSE DocKindsEmpty

NoCall(opts) == [call |-> "", opts |-> opts, path |-> "", panic |-> Nil]

InitFuncs ==
    /\ pc = "setup"
    /\ cfgType \in TypeNames
    /\ target \in {[shape |-> s, val |-> Zero(TypeOf(cfgType))] : s \in Shapes(cfgType)}
    /\ \E opts \in OptionLists :
           /\ binder = New(opts)
           /\ result = NoCall(opts)
    /\ env \in {EmptyMapping} \cup {nv[1] :> nv[2] : nv \in EnvChoices(cfgType)}
    /\ file \in {(ConfigPath :> a) @@ (OtherPath :> b) :
                    a \in {Absent} \cup FileStates(cfgType),
                    b \in {Absent, DocFile(OtherDoc(cfgType))}}
    /\ err = Nil
    /\ log = <<>>
    /\ str = <<>>
    /\ stack = <<>>
    /\ NoLogger
    /\ NoResultValue

\* the state after a call that returned or panicked with r
Called(name, path, r, next) ==
    /\ target' = [target EXCEPT !.val = r.v]
    /\ err' = r.err
    /\ log' = r.log
    /\ result' = [result EXCEPT !.call = name, !.path = path, !.panic = r.panic]
    /\ pc' = next
    /\ UNCHANGED <<cfgType, binder, env, file, str, stack, loggerVars, resultVars>>

CallLoadFromFile(path) ==
    /\ pc = "setup"
    /\ Called("LoadFromFile", path,
              LoadFromFile(path, env, file, target, TypeOf(cfgType), result.opts),
              "fileloaded")

CallLoadFromEnv ==
    /\ pc = "setup"
    /\ Called("LoadFromEnv", "",
              LoadFromEnv(env, file, target, TypeOf(cfgType), result.opts), "envloaded")

CallMustLoad ==
    /\ pc = "setup"
    /\ Called("MustLoad", "", MustLoad(binder, env, file, target, TypeOf(cfgType)),
              "mustloaded")

\* the binder is used again: after Load and Validate, or after MustLoad, the test
\* calls Load on a second target, a record of the same type declared with var; here
\* result becomes what that call returns, [v, err, log]
CallLoadAgain ==
    /\ pc \in {"validated", "mustloaded"}
    /\ result' = Load(binder, env, file, [target EXCEPT !.val = Zero(TypeOf(cfgType))],
                      TypeOf(cfgType))
    /\ pc' = "reloaded"
    /\ UNCHANGED <<cfgType, target, binder, env, file, err, log, str, stack, loggerVars, resultVars>>

NextFuncs ==
    \/ \E path \in Paths : CallLoadFromFile(path)
    \/ CallLoadFromEnv
    \/ CallMustLoad
    \/ CallLoad
    \/ CallValidate
    \/ CallLoadAgain

SpecFuncs == InitFuncs /\ [][NextFuncs]_vars

(***************************************************************************)
(* The overlay step by step.  processStruct and hasAnyEnvVar call          *)
(* themselves; here every call is a frame of the call stack and every      *)
(* iteration of their loops a step, so that the depth of the recursion is  *)
(* a part of the state.  A frame is [fn, t, prefix, path, i]: the          *)
(* function, the record type it walks, its prefix, the fields above it     *)
(* and the index of the field its loop is at.  The walk follows the        *)
(* control flow only: the values assigned are those of processStruct in    *)
(* Spec, and the target stays as passed.  The stack of a goroutine is      *)
(* limited; a call beyond MaxStack frames ends the process ("overflow").   *)
(*                                                                         *)
(*   type LinkConfig struct {                                              *)
(*       Name string      `yaml:"name"`                                    *)
(*       Next *LinkConfig `yaml:"next"`                                    *)
(*   }                                                                     *)
(***************************************************************************)
\* a type named inside its own declaration
TypeRef(n) == [kind |-> "ref", name |-> n]

LinkConfig ==
    StructOf("LinkConfig",
        << Field(N.Name, Basic("string"), FALSE, "name"),
           Field(N.Next, PtrTo(TypeRef("LinkConfig")), FALSE, "next") >>)

\* reflect.Type.Elem() of a pointer type, or the type of a field
Deref(t) == IF t.kind = "ref" THEN LinkConfig ELSE t

WalkTypes == {"ClusterConfig", "LinkConfig"}

WalkTypeOf(n) == IF n = "LinkConfig" THEN LinkConfig ELSE TypeOf(n)

WalkEnvChoices(n) ==
    IF n = "LinkConfig" THEN
     { <<<<"N", "A", "M", "E">>, <<"f", "i", "r", "s", "t">>>>,
       <<<<"N", "E", "X", "T", "_", "N", "A", "M", "E">>, <<"s", "e", "c", "o", "n", "d">>>>,
       <<<<"N", "E", "X", "T", "_", "N", "E", "X", "T", "_", "N", "A", "M", "E">>, <<"t", "h", "i", "r", "d">>>>,
       <<<<"M", "Y", "A", "P", "P", "_", "N", "E", "X", "T", "_", "N", "A", "M", "E">>, <<"s", "e", "c", "o", "n", "d">>>> }
    ELSE EnvChoices(n)

MaxStack == 6

CallFrame(fn, t, prefix, path) == [fn |-> fn, t |-> t, prefix |-> prefix, path |-> path, i |-> 1]

Top == stack[Len(stack)]

\* the field the loop of the top frame is at
TopField == Top.t.fields[Top.i]

\* the loop of the top frame goes on to its next field
Advance(st) == [st EXCEPT ![Len(st)].i = @ + 1]

Pop(st) == SubSeq(st, 1, Len(st) - 1)

\* the stack below the hasAnyEnvVar frames at its top
RECURSIVE Unwind(_)
Unwind(st) ==
    IF st # <<>> /\ st[Len(st)].fn = "hasAnyEnvVar" THEN Unwind(Pop(st)) ELSE st

\* the top frame is at a field its function descends into
AtRecord ==
    /\ pc = "walking"
    /\ Top.i <= Len(Top.t.fields)
    /\ Top.fn = "processStruct" => TopField.exported
    /\ \/ IsNestedStruct(TopField.type)
       \/ TopField.type.kind = "ptr" /\ Deref(TopField.type.elem).kind = "struct"

InitWalk ==
    /\ pc = "setup"
    /\ cfgType \in WalkTypes
    /\ target = [shape |-> "ptr", val |-> Zero(WalkTypeOf(cfgType))]
    /\ binder \in {New(opts) : opts \in OptionLists}
    /\ env \in {EmptyMapping} \cup {nv[1] :> nv[2] : nv \in WalkEnvChoices(cfgType)}
    /\ file = [p \in {ConfigPath} |-> Absent]
    /\ err = Nil
    /\ log = <<>>
    /\ result = NoResult
    /\ str = <<>>
    /\ stack = <<>>
    /\ NoLogger
    /\ NoResultValue

\* Load has checked its argument and calls loadFromEnv, which calls processStruct
WalkStart ==
    /\ pc = "setup"
    /\ stack' = <<CallFrame("processStruct", WalkTypeOf(cfgType), <<>>, <<>>)>>
    /\ pc' = "walking"
    /\ UNCHANGED <<cfgType, target, binder, env, file, err, log, result, str, loggerVars, resultVars>>

\* the call of the loop body: processStruct calls itself for a nested record and
\* hasAnyEnvVar for a nullable one; hasAnyEnvVar calls itself for both
WalkCall ==
    /\ AtRecord
    /\ Len(stack) < MaxStack
    /\ stack' = Append(stack,
                       CallFrame(IF Top.fn = "processStruct" /\ IsNestedStruct(TopField.type)
                                 THEN "processStruct" ELSE "hasAnyEnvVar",
                                 Deref(IF TopField.type.kind = "ptr" THEN TopField.type.elem
                                       ELSE TopField.type),
                                 buildPrefix(binder, Top.prefix, TopField.name),
                                 Top.path \o <<TopField.name>>))
    /\ UNCHANGED <<pc, cfgType, target, binder, env, file, err, log, result, str, loggerVars, resultVars>>

\* the same call when the stack is full
WalkOverflow ==
    /\ AtRecord
    /\ Len(stack) = MaxStack
    /\ pc' = "overflow"
    /\ UNCHANGED <<cfgType, target, binder, env, file, err, log, result, str, stack, loggerVars, resultVars>>

\* the loop body at a leaf.  hasAnyEnvVar returns true when the variable is set, and
\* so does every hasAnyEnvVar that called it; processStruct, below them, then calls
\* itself for the nullable record.  processStruct at a leaf calls setFieldFromEnv.
WalkLeaf ==
    /\ pc = "walking"
    /\ Top.i <= Len(Top.t.fields)
    /\ ~AtRecord
    /\ LET f == TopField
           envName == leafEnvName(binder, f.name, Top.prefix)
           path == Top.path \o <<f.name>>
           below == Unwind(stack)
           caller == below[Len(below)]
           set == setFieldFromEnv(env, Zero(f.type), f.type, envName, path)
       IN  IF Top.fn = "hasAnyEnvVar"
           THEN /\ log' = Append(log, GetenvEntry("hasAnyEnvVar", envName, path))
                /\ stack' = IF Getenv(env, envName) # <<>>
                            THEN Append(below,
                                     CallFrame("processStruct",
                                         Deref(caller.t.fields[caller.i].type.elem),
                                         buildPrefix(binder, caller.prefix,
                                                     caller.t.fields[caller.i].name),
                                         caller.path \o <<caller.t.fields[caller.i].name>>))
                            ELSE Advance(stack)
                /\ UNCHANGED <<pc, err>>
           ELSE IF ~f.exported
           THEN /\ stack' = Advance(stack)
                /\ UNCHANGED <<pc, err, log>>
           ELSE /\ log' = log \o set.log
                /\ IF set.err # Nil
                   THEN /\ err' = Wrap(Frame("failed to load from env"),
                                       Wrap(FieldFrame(f.name), set.err))
                        /\ pc' = "done"
                        /\ stack' = <<>>
                   ELSE /\ stack' = Advance(stack)
                        /\ UNCHANGED <<pc, err>>
    /\ UNCHANGED <<cfgType, target, binder, env, file, result, str, loggerVars, resultVars>>

\* the loop of the top frame is over: hasAnyEnvVar returns false, processStruct nil,
\* and the loop of the caller goes on
WalkReturn ==
    /\ pc = "walking"
    /\ Top.i > Len(Top.t.fields)
    /\ IF Len(stack) = 1
       THEN /\ pc' = "done"
            /\ stack' = <<>>
       ELSE /\ stack' = Advance(Pop(stack))
            /\ UNCHANGED pc
    /\ UNCHANGED <<cfgType, target, binder, env, file, err, log, result, str, loggerVars, resultVars>>

NextWalk ==
    \/ WalkStart
    \/ WalkCall
    \/ WalkOverflow
    \/ WalkLeaf
    \/ WalkReturn

SpecWalk == InitWalk /\ [][NextWalk]_vars

InitLogger ==
    /\ NoLogger
    /\ NoResultValue
    /\ pc = "logger"
    /\ cfgType = "TestConfig"
    /\ target = [shape |-> "ptr", val |-> Zero(TestConfig)]
    /\ binder = New(<<>>)
    /\ env = EmptyMapping
    /\ file = [p \in {ConfigPath} |-> Absent]
    /\ err = Nil
    /\ log = <<>>
    /\ result = NoResult
    /\ str = <<>>
    /\ stack = <<>>

NextLogger ==
    \E g \in Goroutines :
        \/ \E config \in LoggerConfigs : CallInit(g, config)
        \/ CallGetDefaultLogger(g)
        \/ OnceDo(g)
        \/ OnceLock(g)
        \/ OnceRun(g)
        \/ OnceStore(g)
        \/ OnceUnlock(g)
        \/ InitReturn(g)
        \/ GetDefaultLoggerReturn(g)

SpecLogger == InitLogger /\ [][NextLogger]_vars

(***************************************************************************)
(* The tests of package result.                                            *)
(***************************************************************************)
\* a test makes a Result with Ok or Err and calls one method on it; ret lists the
\* constructor call with its argument and the method call with what it returned
InitResult ==
    /\ NoLogger
    /\ NoResultValue
    /\ pc = "result"
    /\ cfgType = "TestConfig"
    /\ target = [shape |-> "ptr", val |-> Zero(TestConfig)]
    /\ binder = New(<<>>)
    /\ env = EmptyMapping
    /\ file = [p \in {ConfigPath} |-> Absent]
    /\ err = Nil
    /\ log = <<>>
    /\ result = NoResult
    /\ str = <<>>
    /\ stack = <<>>

CallOk(value) ==
    /\ pc = "result"
    /\ res' = result_Ok(value)
    /\ ret' = <<Call("Ok", value, NilError, FALSE, "")>>
    /\ pc' = "made"
    /\ UNCHANGED <<cfgType, target, binder, env, file, err, log, str, result, stack, loggerVars>>

CallErr(e) ==
    /\ pc = "result"
    /\ res' = result_Err(e)
    /\ ret' = <<Call("Err", 0, e, FALSE, "")>>
    /\ pc' = "made"
    /\ UNCHANGED <<cfgType, target, binder, env, file, err, log, str, result, stack, loggerVars>>

\* the method call c on the Result
CallMethod(c) ==
    /\ pc = "made"
    /\ ret' = Append(ret, c)
    /\ pc' = "called"
    /\ UNCHANGED <<cfgType, target, binder, env, file, err, log, str, result, stack, loggerVars, res>>

CallIsOk == CallMethod(Call("IsOk", 0, NilError, IsOk(res), ""))

CallIsErr == CallMethod(Call("IsErr", 0, NilError, IsErr(res), ""))

CallUnwrap == CallMethod(Unwrap(res))

CallUnwrapErr == CallMethod(UnwrapErr(res))

CallExpect == CallMethod(Expect(res, "should have value"))

CallExpectErr == CallMethod(ExpectErr(res, "should have error"))

CallGetOrElse(defaultValue) ==
    /\ pc = "made"
    /\ ret' = ret \o <<Call("default", defaultValue, NilError, FALSE, ""), GetOrElse(res, defaultValue)>>
    /\ pc' = "called"
    /\ UNCHANGED <<cfgType, target, binder, env, file, err, log, str, result, stack, loggerVars, res>>

NextResult ==
    \/ \E value \in Values : CallOk(value)
    \/ \E e \in Errors : CallErr(e)
    \/ CallIsOk
    \/ CallIsErr
    \/ CallUnwrap
    \/ CallUnwrapErr
    \/ CallExpect
    \/ CallExpectErr
    \/ \E defaultValue \in Values : CallGetOrElse(defaultValue)

SpecResult == InitResult /\ [][NextResult]_vars

(***************************************************************************)
(* What the claims speak of.  A path is the sequence of field indices from *)
(* the target down to a field; a leaf is a field the overlay assigns from  *)
(* one variable: any field that is neither a nested record nor a nullable  *)
(* nested record.                                                          *)
(***************************************************************************)
T == TypeOf(cfgType)

RECURSIVE LeafPaths(_)
LeafPaths(t) ==
    UNION { IF IsNestedStruct(t.fields[i].type)
            THEN {<<i>> \o p : p \in LeafPaths(t.fields[i].type)}
            ELSE IF IsStructPointer(t.fields[i].type)
            THEN {<<i>> \o p : p \in LeafPaths(t.fields[i].type.elem)}
            ELSE {<<i>>} : i \in 1..Len(t.fields) }

\* the paths of the nullable nested records
RECURSIVE PointerPaths(_)
PointerPaths(t) ==
    UNION { IF IsNestedStruct(t.fields[i].type)
            THEN {<<i>> \o p : p \in PointerPaths(t.fields[i].type)}
            ELSE IF IsStructPointer(t.fields[i].type)
            THEN {<<i>>} \cup {<<i>> \o p : p \in PointerPaths(t.fields[i].type.elem)}
            ELSE {} : i \in 1..Len(t.fields) }

\* the record type a field of type t leads into
RecordOf(t) == IF t.kind = "ptr" THEN t.elem ELSE t

RECURSIVE FieldAt(_, _)
FieldAt(t, p) ==
    IF Len(p) = 1 THEN t.fields[p[1]]
    ELSE FieldAt(RecordOf(t.fields[p[1]].type), Tail(p))

\* the declared names along a path
RECURSIVE NamesAt(_, _)
NamesAt(t, p) ==
    IF p = <<>> THEN <<>>
    ELSE <<t.fields[p[1]].name>> \o
         (IF Len(p) = 1 THEN <<>> ELSE NamesAt(RecordOf(t.fields[p[1]].type), Tail(p)))

\* the value at a path; below a nil record a field reads as its zero value
RECURSIVE ValueAt(_, _, _)
ValueAt(v, t, p) ==
    IF Len(p) = 1 THEN v[p[1]]
    ELSE IF t.fields[p[1]].type.kind = "ptr"
    THEN ValueAt(IF v[p[1]].nil THEN Zero(t.fields[p[1]].type.elem) ELSE v[p[1]].elem,
                 t.fields[p[1]].type.elem, Tail(p))
    ELSE ValueAt(v[p[1]], t.fields[p[1]].type, Tail(p))

IsPrefix(p, q) == Len(p) < Len(q) /\ SubSeq(q, 1, Len(p)) = p

RECURSIVE JoinUnderscore(_)
JoinUnderscore(parts) ==
    IF parts = <<>> THEN <<>>
    ELSE IF Len(parts) = 1 THEN parts[1]
    ELSE parts[1] \o <<"_">> \o JoinUnderscore(Tail(parts))

\* the name the specification derives for the field with these ancestors' and own names
DerivedName(c, names) ==
    ToUpper(JoinUnderscore((IF c.envPrefix # <<>> THEN <<c.envPrefix>> ELSE <<>>)
                           \o [i \in 1..Len(names) |-> toSnakeCase(names[i])]))

\* the variable of a leaf: the mapped name of its bare name, or else the derived one
VariableOf(c, names) ==
    IF names[Len(names)] \in DOMAIN c.envMapping THEN c.envMapping[names[Len(names)]]
    ELSE DerivedName(c, names)

\* a variable is set when it has a value other than ""
IsSet(name) == Getenv(env, name) # <<>>

LeafIsSet(p) == IsSet(VariableOf(binder, NamesAt(T, p)))

\* the target as the YAML step alone leaves it
YamlOnly ==
    IF binder.yamlFile # "" /\ file[binder.yamlFile].st = "doc"
    THEN yamlUnmarshal(file[binder.yamlFile].doc, T, Zero(T))
    ELSE Zero(T)

\* Load returned success on a pointer to a record
Loaded == pc \in {"loaded", "validated"} /\ target.shape = "ptr" /\ err = Nil

(* C1: after a successful Load, every leaf whose variable is set (to a     *)
(* value other than "") holds the value coerced from the variable, not the *)
(* YAML value, and every leaf whose variable is unset holds the value the  *)
(* YAML document gave it (its zero value if the document gave none).       *)
C1_EnvOverridesYAML ==
    Loaded =>
        \A p \in LeafPaths(T) :
            ValueAt(target.val, T, p) =
                IF LeafIsSet(p)
                THEN setFieldValue(ValueAt(YamlOnly, T, p), FieldAt(T, p).type,
                                   Getenv(env, VariableOf(binder, NamesAt(T, p)))).v
                ELSE ValueAt(YamlOnly, T, p)

\* TestEnvOverridesYAML: host and port from the environment, the URL from the file
C1_Witness ==
    /\ Loaded
    /\ cfgType = "TestConfig"
    /\ file[ConfigPath] = DocFile(DocOverride)
    /\ Getenv(env, <<"S", "E", "R", "V", "E", "R", "_", "H", "O", "S", "T">>) = <<"e", "n", "v", "-", "h", "o", "s", "t">>
    /\ Getenv(env, <<"S", "E", "R", "V", "E", "R", "_", "P", "O", "R", "T">>) = <<"8", "0", "8", "0">>
    /\ ValueAt(target.val, T, <<1, 1>>) = <<"e", "n", "v", "-", "h", "o", "s", "t">>
    /\ ValueAt(target.val, T, <<1, 2>>) = 8080
    /\ ValueAt(target.val, T, <<2, 1>>) = <<"p", "o", "s", "t", "g", "r", "e", "s", ":", "/", "/", "y", "a", "m", "l", "-", "d", "b", "/", "t", "e", "s", "t">>

\* some leaf below the record at path p has its variable set
AnySetBelow(p) == \E q \in LeafPaths(T) : IsPrefix(p, q) /\ LeafIsSet(q)

(* C2: after a successful Load, a nullable nested record that was nil when *)
(* the overlay began is nil if no leaf below it, at any depth, has its     *)
(* variable set, and otherwise is a record whose leaves with a set         *)
(* variable hold the coerced values.                                       *)
C2_NullableRecords ==
    Loaded =>
        \A p \in PointerPaths(T) :
            ValueAt(YamlOnly, T, p).nil =>
                /\ (ValueAt(target.val, T, p).nil <=> ~AnySetBelow(p))
                /\ \A q \in LeafPaths(T) :
                       (IsPrefix(p, q) /\ LeafIsSet(q)) =>
                           ValueAt(target.val, T, q) =
                               setFieldValue(Zero(FieldAt(T, q).type), FieldAt(T, q).type,
                                             Getenv(env, VariableOf(binder, NamesAt(T, q)))).v

\* ClusterConfig: PRIMARY_AUTH_USERNAME alone makes Primary and Primary.Auth
C2_Witness ==
    /\ Loaded
    /\ cfgType = "ClusterConfig"
    /\ DOMAIN env = {<<"P", "R", "I", "M", "A", "R", "Y", "_", "A", "U", "T", "H", "_", "U", "S", "E", "R", "N", "A", "M", "E">>}
    /\ YamlOnly = Zero(T)
    /\ ~target.val[2].nil
    /\ target.val[2].elem[1] = <<>>
    /\ ~target.val[2].elem[2].nil
    /\ target.val[2].elem[2].elem[1] = <<"r", "o", "o", "t">>

Last(s) == s[Len(s)]

(* C4: for a leaf whose bare name has an entry in envMapping, every        *)
(* variable Load reads for it is the mapped name itself, with no ancestor  *)
(* prefix and no envPrefix, and after a successful Load the leaf holds the *)
(* value coerced from that variable, whatever envPrefix is.                *)
C4_MappedNameVerbatim ==
    pc \in {"loaded", "validated"} =>
        /\ \A i \in 1..Len(log) :
               (log[i].op = "Getenv" /\ Last(log[i].path) \in DOMAIN binder.envMapping)
                   => log[i].name = binder.envMapping[Last(log[i].path)]
        /\ Loaded =>
               \A p \in LeafPaths(T) :
                   (/\ FieldAt(T, p).name \in DOMAIN binder.envMapping
                    /\ IsSet(binder.envMapping[FieldAt(T, p).name]))
                       => ValueAt(target.val, T, p) =
                              setFieldValue(ValueAt(YamlOnly, T, p), FieldAt(T, p).type,
                                  Getenv(env, binder.envMapping[FieldAt(T, p).name])).v

\* prefix MYAPP and the mapping of TestCustomEnvMapping: Server.Host from CUSTOM_HOST
C4_Witness ==
    /\ Loaded
    /\ cfgType = "TestConfig"
    /\ binder.envPrefix = MYAPP
    /\ binder.envMapping = CustomMapping
    /\ Getenv(env, <<"C", "U", "S", "T", "O", "M", "_", "H", "O", "S", "T">>) = <<"c", "u", "s", "t", "o", "m", "-", "h", "o", "s", "t">>
    /\ Getenv(env, <<"M", "Y", "A", "P", "P", "_", "C", "U", "S", "T", "O", "M", "_", "H", "O", "S", "T">>) = <<"p", "r", "e", "f", "i", "x", "e", "d", "-", "c", "u", "s", "t", "o", "m">>
    /\ ValueAt(target.val, T, <<1, 1>>) = <<"c", "u", "s", "t", "o", "m", "-", "h", "o", "s", "t">>

(* C6: every variable Load reads for a field without a mapping is the      *)
(* upper-cased join with '_' of the envPrefix (if any), the snake-cased    *)
(* names of the ancestors from the root down and the snake-cased field     *)
(* name; a successful Load has read every such leaf under that name.       *)
C6_DerivedNames ==
    pc \in {"loaded", "validated"} =>
        /\ \A i \in 1..Len(log) :
               (log[i].op = "Getenv" /\ Last(log[i].path) \notin DOMAIN binder.envMapping)
                   => log[i].name = DerivedName(binder, log[i].path)
        /\ Loaded =>
               \A p \in LeafPaths(T) :
                   FieldAt(T, p).name \notin DOMAIN binder.envMapping
                       => \E i \in 1..Len(log) :
                              /\ log[i].op = "Getenv"
                              /\ log[i].path = NamesAt(T, p)
                              /\ log[i].name = DerivedName(binder, NamesAt(T, p))

\* Database.Credentials.Username read as DATABASE_CREDENTIALS_USERNAME
C6_Witness ==
    /\ Loaded
    /\ cfgType = "TestConfig"
    /\ binder.envPrefix = <<>>
    /\ \E i \in 1..Len(log) :
           log[i] = GetenvEntry("setFieldFromEnv", <<"D", "A", "T", "A", "B", "A", "S", "E", "_", "C", "R", "E", "D", "E", "N", "T", "I", "A", "L", "S", "_", "U", "S", "E", "R", "N", "A", "M", "E">>,
                                <<N.Database, N.Credentials, N.Username>>)
    /\ ValueAt(target.val, T, <<2, 4, 1>>) = <<"a", "d", "m", "i", "n">>

InvalidTargetErrors ==
    {Errorf("config cannot be nil"), Errorf("config must be a pointer to struct")}

(* C8: Load on nil, on a value that is not a pointer, on a pointer to      *)
(* something that is not a struct or on a nil pointer returns the          *)
(* invalid-target error, reads no file and no variable, and leaves the     *)
(* target as it was; on a non-nil pointer to a struct Load never returns   *)
(* that error.                                                             *)
C8_InvalidTarget ==
    pc \in {"loaded", "validated"} =>
        IF target.shape = "ptr" THEN err \notin InvalidTargetErrors
        ELSE /\ err \in InvalidTargetErrors
             /\ log = <<>>
             /\ target.val = Zero(T)

\* a nil pointer, with a file to read and a variable to bind
C8_Witness ==
    /\ pc = "loaded"
    /\ target.shape = "nilptr"
    /\ err = Errorf("config must be a pointer to struct")
    /\ file[ConfigPath] = DocFile(DocCluster)
    /\ IsSet(<<"P", "R", "I", "M", "A", "R", "Y", "_", "H", "O", "S", "T">>)
    /\ log = <<>>

\* the paths of all fields, leaves and records alike
RECURSIVE FieldPaths(_)
FieldPaths(t) ==
    UNION { {<<i>>} \cup
            (IF IsNestedStruct(t.fields[i].type) \/ IsStructPointer(t.fields[i].type)
             THEN {<<i>> \o p : p \in FieldPaths(RecordOf(t.fields[i].type))}
             ELSE {}) : i \in 1..Len(t.fields) }

\* the field at path p is part of the target: no nullable record above it is nil
Exists(p) == \A r \in PointerPaths(T) : IsPrefix(r, p) => ~ValueAt(target.val, T, r).nil

\* some required field of the target holds the zero value of its type
SomeRequiredIsZero ==
    \E p \in FieldPaths(T) :
        /\ FieldAt(T, p).required
        /\ Exists(p)
        /\ ValueAt(target.val, T, p) = Zero(FieldAt(T, p).type)

(* C3: Validate returns, and returns an error if and only if some required *)
(* field of the target holds the zero value of its type.                   *)
C3_ValidateIffRequiredZero ==
    (pc = "validated" /\ target.shape \in {"ptr", "value"}) =>
        /\ result.panic = ""
        /\ (result.err # Nil <=> SomeRequiredIsZero)

\* KindsConfig with Level set: Validate compares the required Features record
C3_Witness ==
    /\ pc = "validated"
    /\ cfgType = "KindsConfig"
    /\ target.shape = "ptr"
    /\ ValueAt(target.val, T, <<3>>) = 7
    /\ result.panic = "comparing uncomparable type"

\* declaration order of paths
RECURSIVE PathLess(_, _)
PathLess(p, q) ==
    IF p = <<>> THEN q # <<>>
    ELSE IF q = <<>> THEN FALSE
    ELSE IF p[1] # q[1] THEN p[1] < q[1]
    ELSE PathLess(Tail(p), Tail(q))

First(S) == CHOOSE p \in S : \A q \in S : q = p \/ PathLess(p, q)

\* the one field an entry of envMapping is for: the first leaf of that bare name
OwnerOf(n) == First({p \in LeafPaths(T) : FieldAt(T, p).name = n})

\* the variable of the leaf at p when an entry overrides the name of its owner only
OwnVariableOf(p) ==
    IF FieldAt(T, p).name \in DOMAIN binder.envMapping /\ p = OwnerOf(FieldAt(T, p).name)
    THEN binder.envMapping[FieldAt(T, p).name]
    ELSE DerivedName(binder, NamesAt(T, p))

(* C5: an entry of envMapping overrides the derived name for one field     *)
(* only: every other leaf of the same bare name is read under its derived  *)
(* name, and a nil nullable record is instantiated only when one of the    *)
(* leaves below it has its own variable set.                               *)
C5_MappingForOneFieldOnly ==
    pc \in {"loaded", "validated"} =>
        /\ \A p \in LeafPaths(T) : \A i \in 1..Len(log) :
               (log[i].op = "Getenv" /\ log[i].path = NamesAt(T, p))
                   => log[i].name = OwnVariableOf(p)
        /\ Loaded =>
               \A r \in PointerPaths(T) :
                   (/\ ValueAt(YamlOnly, T, r).nil
                    /\ \A q \in LeafPaths(T) : IsPrefix(r, q) => ~IsSet(OwnVariableOf(q)))
                       => ValueAt(target.val, T, r).nil

\* the mapping of TestCustomEnvMapping and CUSTOM_HOST alone: Redis is made
C5_Witness ==
    /\ Loaded
    /\ cfgType = "TestConfig"
    /\ binder.envMapping = CustomMapping
    /\ DOMAIN env = {<<"C", "U", "S", "T", "O", "M", "_", "H", "O", "S", "T">>}
    /\ YamlOnly = Zero(T)
    /\ ValueAt(target.val, T, <<1, 1>>) = <<"c", "u", "s", "t", "o", "m", "-", "h", "o", "s", "t">>
    /\ ~ValueAt(target.val, T, <<3>>).nil
    /\ ValueAt(target.val, T, <<3, 1>>) = <<"c", "u", "s", "t", "o", "m", "-", "h", "o", "s", "t">>

\* the kinds the coercion has a rule for, by the specification
RECURSIVE HasRule(_)
HasRule(t) ==
    IF t.kind \in {"string", "bool"} \cup IntKinds \cup UintKinds \cup FloatKinds THEN TRUE
    ELSE IF IsTime(t) THEN TRUE
    ELSE IF t.kind \in {"slice", "ptr"} THEN HasRule(t.elem)
    ELSE FALSE

\* whether a value parses for a kind that has a rule
RECURSIVE Coerces(_, _)
Coerces(t, value) ==
    IF t.kind = "string" THEN TRUE
    ELSE IF t.kind = "bool" THEN ParseBool(value).ok
    ELSE IF IsDuration(t) THEN ParseDuration(value).ok
    ELSE IF t.kind \in IntKinds THEN ParseInt(value).ok
    ELSE IF t.kind \in UintKinds THEN ParseUint(value).ok
    ELSE IF t.kind \in FloatKinds THEN ParseFloat(value).ok
    ELSE IF IsTime(t) THEN \E layout \in {LayoutRFC3339} \cup Range(TimeFormats) :
                               ParseTime(layout, value).ok
    ELSE IF t.kind = "ptr" THEN Coerces(t.elem, value)
    ELSE \A i \in 1..Len(Split(value)) : Coerces(t.elem, TrimSpace(Split(value)[i]))

\* the message of the coercion error of a kind
RECURSIVE InvalidMessage(_)
InvalidMessage(t) ==
    IF t.kind = "bool" THEN "invalid bool value"
    ELSE IF IsDuration(t) THEN "invalid duration value"
    ELSE IF t.kind \in IntKinds THEN "invalid int value"
    ELSE IF t.kind \in UintKinds THEN "invalid uint value"
    ELSE IF t.kind \in FloatKinds THEN "invalid float value"
    ELSE IF IsTime(t) THEN "invalid time value"
    ELSE InvalidMessage(t.elem)

ValueOf(p) == Getenv(env, VariableOf(binder, NamesAt(T, p)))

\* the leaves whose variable is set to a value that does not parse for their kind
FailingLeaves ==
    {p \in LeafPaths(T) : LeafIsSet(p) /\ ~Coerces(FieldAt(T, p).type, ValueOf(p))}

\* the YAML step of Load failed
YamlFailed == binder.yamlFile # "" /\ file[binder.yamlFile].st \in {"unreadable", "malformed"}

\* Load ran its overlay, and every variable that is set is of a kind with a rule
OverlayOfRuledKinds ==
    /\ pc \in {"loaded", "validated"}
    /\ target.shape = "ptr"
    /\ ~YamlFailed
    /\ \A p \in LeafPaths(T) : LeafIsSet(p) => HasRule(FieldAt(T, p).type)

(* C9: when some leaf of kind bool, integer, float, duration or timestamp  *)
(* has its variable set to a value that does not parse for the kind, Load  *)
(* returns an error that names the field (the first such leaf in           *)
(* declaration order) and wraps the coercion error of its kind with the    *)
(* value; when every set variable parses, Load returns no error.           *)
C9_CoercionFailure ==
    OverlayOfRuledKinds =>
        LET failing == FailingLeaves
            p == First(failing)
        IN  IF failing = {} THEN err = Nil
            ELSE err = << Frame("failed to load from env"),
                          FieldFrame(FieldAt(T, p).name),
                          ValueFrame(InvalidMessage(FieldAt(T, p).type), ValueOf(p)) >>

\* RATIO and LEVEL both invalid: the error names Ratio and wraps the float error
C9_Witness ==
    /\ pc = "loaded"
    /\ cfgType = "KindsConfig"
    /\ Getenv(env, <<"R", "A", "T", "I", "O">>) = <<"1", ".", "2", ".", "3">>
    /\ Getenv(env, <<"L", "E", "V", "E", "L">>) = <<"s", "e", "v", "e", "n">>
    /\ err = << Frame("failed to load from env"), FieldFrame(N.Ratio),
                ValueFrame("invalid float value", <<"1", ".", "2", ".", "3">>) >>

\* the kind without a rule that a type comes down to
RECURSIVE RulelessKind(_)
RulelessKind(t) == IF t.kind \in {"slice", "ptr"} THEN RulelessKind(t.elem) ELSE t.kind

(* C10: a leaf of a kind without a coercion rule whose variable is set     *)
(* makes Load fail, and when no other variable is set the error is the     *)
(* unsupported-type error carrying the kind.                               *)
C10_UnsupportedKindFails ==
    (pc \in {"loaded", "validated"} /\ target.shape = "ptr" /\ ~YamlFailed) =>
        \A p \in LeafPaths(T) :
            (LeafIsSet(p) /\ ~HasRule(FieldAt(T, p).type)) =>
                /\ err # Nil
                /\ (\A q \in LeafPaths(T) : LeafIsSet(q) => q = p) =>
                       /\ Last(err).msg = "unsupported field type"
                       /\ Last(err).kind = RulelessKind(FieldAt(T, p).type)

\* SERVERS=a,b: Load succeeds and Servers holds two zero records
C10_Witness ==
    /\ Loaded
    /\ cfgType = "KindsConfig"
    /\ DOMAIN env = {<<"S", "E", "R", "V", "E", "R", "S">>}
    /\ ValueAt(target.val, T, <<8>>) = SliceVal(<<Zero(ServerConfig), Zero(ServerConfig)>>)

\* Load was called with a pointer to a record, on a binder with a YAML path
LoadedWithPath == pc \in {"loaded", "validated"} /\ target.shape = "ptr" /\ binder.yamlFile # ""

\* the overlay was started: it read a variable
OverlayRan == \E i \in 1..Len(log) : log[i].op = "Getenv"

(* C11: when a YAML path is configured and the file does not exist, Load   *)
(* reports no error for the file, the YAML step leaves the target as the   *)
(* caller passed it (a leaf whose variable is unset keeps the value it     *)
(* had), and the overlay still runs (variables are read; after a           *)
(* successful Load a leaf whose variable is set holds the coerced value);  *)
(* when the file exists and reading it fails, Load fails with the read     *)
(* error, without touching the target or reading a variable.               *)
C11_MissingFileSkipped ==
    LoadedWithPath =>
        /\ file[binder.yamlFile].st = "absent" =>
               /\ err = Nil \/ err[1] = Frame("failed to load from env")
               /\ OverlayRan
               /\ \A p \in LeafPaths(T) :
                      IF LeafIsSet(p)
                      THEN err = Nil =>
                               ValueAt(target.val, T, p) =
                                   setFieldValue(ValueAt(Zero(T), T, p), FieldAt(T, p).type,
                                                 Getenv(env, VariableOf(binder, NamesAt(T, p)))).v
                      ELSE ValueAt(target.val, T, p) = ValueAt(Zero(T), T, p)
        /\ file[binder.yamlFile].st = "unreadable" =>
               /\ err = <<Frame("failed to load YAML"), Frame("failed to read YAML file")>>
                            \o file[binder.yamlFile].cause
               /\ target.val = Zero(T)
               /\ ~OverlayRan

\* a path to a file that does not exist, and a variable the overlay applied
C11_Witness ==
    /\ LoadedWithPath
    /\ file[binder.yamlFile].st = "absent"
    /\ err = Nil
    /\ cfgType = "TestConfig"
    /\ target.val[1][1] = <<"e", "n", "v", "-", "h", "o", "s", "t">>
    /\ log[1] = ReadFileEntry(ConfigPath)

(* C12: when the YAML document fails to parse, Load returns an error that  *)
(* wraps the parser's error, and the overlay is not started: no variable   *)
(* is read, and the target is as the decoder left it, so that no field     *)
(* holds a value from the environment and a nullable record the decoder    *)
(* left nil is nil.                                                        *)
C12_YAMLParseError ==
    LoadedWithPath /\ file[binder.yamlFile].st = "malformed" =>
        /\ err = <<Frame("failed to load YAML"), Frame("failed to unmarshal YAML")>>
                     \o file[binder.yamlFile].cause
        /\ ~OverlayRan
        /\ target.val = yamlUnmarshal(file[binder.yamlFile].doc, T, Zero(T))

\* a document that does not parse, and set variables of a leaf and of a leaf below a
\* nil nullable record
C12_Witness ==
    /\ LoadedWithPath
    /\ file[binder.yamlFile] = Malformed
    /\ cfgType = "ClusterConfig"
    /\ \E p \in LeafPaths(T) : Len(p) = 1 /\ LeafIsSet(p)
    /\ \E p \in LeafPaths(T) : Len(p) > 1 /\ LeafIsSet(p)
    /\ target.val[2].nil

RECURSIVE JoinDots(_)
JoinDots(parts) ==
    IF Len(parts) = 1 THEN parts[1]
    ELSE parts[1] \o <<".">> \o JoinDots(Tail(parts))

\* the required fields of the target that hold the zero value of their type
RequiredZeroPaths ==
    {p \in FieldPaths(T) :
        /\ FieldAt(T, p).required
        /\ Exists(p)
        /\ ValueAt(target.val, T, p) = Zero(FieldAt(T, p).type)}

\* the kinds whose zero value the zero test of Validate recognises
ZeroTested(t) ==
    \/ t.kind \in {"string", "bool"} \cup IntKinds \cup UintKinds \cup FloatKinds \cup NilKinds
    \/ t.kind = "struct" /\ Comparable(t)

\* the required fields of those kinds that hold the zero value
TestedZeroPaths == {p \in RequiredZeroPaths : ZeroTested(FieldAt(T, p).type)}

\* Validate returned an error
ValidateFailed == pc = "validated" /\ target.shape \in {"ptr", "value"} /\ result.err # Nil

C14_ValidateKeepsTarget == [][pc' = "validated" => target' = target]_vars

\* Validate has failed on a target with a nil nullable record
C14_Witness ==
    /\ ValidateFailed
    /\ cfgType = "TestConfig"
    /\ target.shape = "ptr"
    /\ target.val[3].nil

(* C15: LoadFromEnv performs only the environment overlay: for every       *)
(* option list, one that names a YAML file that exists or does not parse   *)
(* included, no file is read, the only error is the overlay's, a leaf      *)
(* whose variable is unset keeps the value the caller passed and, when the *)
(* call succeeds, a leaf whose variable is set holds the coerced value.    *)
C15_LoadFromEnvOnlyOverlay ==
    pc = "envloaded" /\ target.shape = "ptr" =>
        /\ result.panic = Nil
        /\ \A i \in 1..Len(log) : log[i].op # "ReadFile"
        /\ err = Nil \/ err[1].msg = "failed to set field"
        /\ \A p \in LeafPaths(T) :
               IF LeafIsSet(p)
               THEN err = Nil =>
                        ValueAt(target.val, T, p) =
                            setFieldValue(ValueAt(Zero(T), T, p), FieldAt(T, p).type,
                                          Getenv(env, VariableOf(binder, NamesAt(T, p)))).v
               ELSE ValueAt(target.val, T, p) = ValueAt(Zero(T), T, p)

\* the options name a document that would set the host, and a variable is applied
C15_Witness ==
    /\ pc = "envloaded"
    /\ target.shape = "ptr"
    /\ cfgType = "TestConfig"
    /\ WithYAMLFile(ConfigPath) \in Range(result.opts)
    /\ file[ConfigPath] = DocFile(DocOverride)
    /\ err = Nil
    /\ target.val[1] = <<<<>>, 8080, FALSE>>

(* C16: for every path and every option list, one with a YAML-path option  *)
(* included, LoadFromFile loads through a binder whose YAML path is the    *)
(* path argument and whose prefix and mapping come from the options: the   *)
(* target, the error and the reads are those of Load on that binder.       *)
C16_LoadFromFileUsesPath ==
    pc = "fileloaded" =>
        LET r == Load([New(result.opts) EXCEPT !.yamlFile = result.path], env, file,
                      [target EXCEPT !.val = Zero(T)], T)
        IN  /\ result.panic = Nil
            /\ target.val = r.v
            /\ err = r.err
            /\ log = r.log

\* LoadFromFile("other.yaml", &cfg, WithYAMLFile("config.yaml")) has read config.yaml
C16_Witness ==
    /\ pc = "fileloaded"
    /\ result.path = OtherPath
    /\ WithYAMLFile(ConfigPath) \in Range(result.opts)
    /\ cfgType = "TestConfig"
    /\ file[ConfigPath] = DocFile(DocOverride)
    /\ file[OtherPath] = DocFile(DocFull)
    /\ env = EmptyMapping
    /\ log[1] = ReadFileEntry(ConfigPath)
    /\ target.val = yamlUnmarshal(DocOverride, T, Zero(T))

(* C17: MustLoad panics if and only if Load on the same binder, target,    *)
(* files and environment returns an error, and the panic value is          *)
(* "failed to load configuration: " followed by that error's message;      *)
(* when Load succeeds MustLoad returns and leaves the target as Load does. *)
C17_MustLoadPanicsIffLoadFails ==
    pc = "mustloaded" =>
        LET r == Load(binder, env, file, [target EXCEPT !.val = Zero(T)], T)
        IN  /\ (result.panic # Nil) <=> (r.err # Nil)
            /\ r.err # Nil => result.panic = <<Frame("failed to load configuration")>> \o r.err
            /\ r.err = Nil => target.val = r.v

\* TestMustLoad: a pointer to a string makes MustLoad panic
C17_Witness ==
    /\ pc = "mustloaded"
    /\ target.shape = "ptrstring"
    /\ result.panic = <<Frame("failed to load configuration"),
                        Frame("config must be a pointer to struct")>>

\* the positions that bound the comma-separated parts of s
Cuts(s) == {0, Len(s) + 1} \cup {i \in 1..Len(s) : s[i] = ","}

\* the k-th element of a set of numbers, in increasing order
Kth(S, k) == CHOOSE x \in S : Cardinality({y \in S : y < x}) = k - 1

\* the i-th comma-separated part of s
PartAt(s, i) == SubSeq(s, Kth(Cuts(s), i) + 1, Kth(Cuts(s), i + 1) - 1)

(* C18: after a successful Load, a slice leaf (of elements with a coercion *)
(* rule) whose variable is set holds a new slice: its length is the number *)
(* of commas of the value plus one, whatever the YAML document gave, and   *)
(* its i-th element is the coercion of the i-th comma-separated part with  *)
(* the surrounding whitespace trimmed.                                     *)
C18_SliceReplaced ==
    Loaded =>
        \A p \in LeafPaths(T) :
            (FieldAt(T, p).type.kind = "slice" /\ HasRule(FieldAt(T, p).type) /\ LeafIsSet(p)) =>
                LET value == Getenv(env, VariableOf(binder, NamesAt(T, p)))
                    elem == FieldAt(T, p).type.elem
                    v == ValueAt(target.val, T, p)
                IN  /\ ~v.nil
                    /\ Len(v.elems) = Cardinality(Cuts(value)) - 1
                    /\ \A i \in 1..Len(v.elems) :
                           v.elems[i] = setFieldValue(Zero(elem), elem,
                                                      TrimSpace(PartAt(value, i))).v

\* the document lists two addresses and the variable two others, the second after a space
C18_Witness ==
    /\ Loaded
    /\ cfgType = "TestConfig"
    /\ file[ConfigPath] = DocFile(DocFull)
    /\ Len(DocFull.features.allowed_ips) = 2
    /\ Getenv(env, <<"F", "E", "A", "T", "U", "R", "E", "S", "_", "A", "L", "L", "O", "W", "E", "D", "_", "I", "_", "P", "S">>) = <<"1", "9", "2", ".", "1", "6", "8", ".", "1", ".", "1", ",", " ", "1", "0", ".", "0", ".", "0", ".", "1">>
    /\ target.val[4][3] = SliceVal(<<<<"1", "9", "2", ".", "1", "6", "8", ".", "1", ".", "1">>, <<"1", "0", ".", "0", ".", "0", ".", "1">>>>)

\* the number of fields of the field tree of a record type; a type named inside its
\* own declaration is not entered again
RECURSIVE FieldCountFrom(_, _)
FieldCountFrom(t, i) ==
    IF i > Len(t.fields) THEN 0
    ELSE 1 + FieldCountFrom(t, i + 1)
           + (IF IsNestedStruct(t.fields[i].type) THEN FieldCountFrom(t.fields[i].type, 1)
              ELSE IF IsStructPointer(t.fields[i].type)
              THEN FieldCountFrom(t.fields[i].type.elem, 1)
              ELSE 0)

(* C19: the walk of Load stops, bounded by the size of the target's field  *)
(* tree, for every target, one whose type refers to itself through a       *)
(* nullable reference included: the calls of processStruct and             *)
(* hasAnyEnvVar are never nested deeper than the field tree has fields,    *)
(* and the stack is never exhausted.                                       *)
C19_WalkBounded ==
    /\ pc # "overflow"
    /\ Len(stack) <= FieldCountFrom(WalkTypeOf(cfgType), 1)

\* Load(&LinkConfig{}) with no variable set has exhausted the stack in hasAnyEnvVar
C19_Witness ==
    /\ pc = "overflow"
    /\ cfgType = "LinkConfig"
    /\ env = EmptyMapping
    /\ Top.fn = "hasAnyEnvVar"
    /\ Len(Top.path) = MaxStack - 1
    /\ Len(log) = MaxStack

CompletedCalls(fn) ==
    {c \in UNION {Range(goroutines[g].calls) : g \in Goroutines} : c.fn = fn}

\* the completed calls of Init that returned an error, as pairs <<goroutine, index>>
FailedInits ==
    {gi \in Goroutines \X (1..MaxCalls) :
        /\ gi[2] <= Len(goroutines[gi[1]].calls)
        /\ goroutines[gi[1]].calls[gi[2]].fn = "Init"
        /\ goroutines[gi[1]].calls[gi[2]].ret # ""}

C22_NeverNil ==
    \A c \in CompletedCalls("GetDefaultLogger") : c.ret # NilLogger

\* Init with an invalid level returned its error, and the GetDefaultLogger that
\* followed in the same goroutine returned nil
C22_Witness ==
    \E g \in Goroutines :
        /\ Len(goroutines[g].calls) = 2
        /\ goroutines[g].calls[1].fn = "Init"
        /\ goroutines[g].calls[1].config.Level = "invalid"
        /\ goroutines[g].calls[1].ret = "invalid log level"
        /\ goroutines[g].calls[2].fn = "GetDefaultLogger"
        /\ goroutines[g].calls[2].ret = NilLogger
        /\ built = <<goroutines[g].calls[1].config>>
        /\ once.done

(* C23: a Result is in exactly one of the states Ok and Err, and the       *)
(* constructor decides which: Ok(v) is Ok and Unwrap returns v; Err(e) is  *)
(* Err for every error value e, UnwrapErr returns e and Unwrap panics.     *)
C23_ConstructorDecides ==
    /\ IsOk(res) = ~IsErr(res)
    /\ pc = "called" =>
          LET made == ret[1]
              c == ret[Len(ret)]
          IN  /\ made.call = "Ok" =>
                    /\ IsOk(res)
                    /\ c.call = "IsOk" => c.ok
                    /\ c.call = "IsErr" => ~c.ok
                    /\ c.call = "Unwrap" => c.panic = "" /\ c.value = made.value
              /\ made.call = "Err" =>
                    /\ IsErr(res)
                    /\ c.call = "IsOk" => ~c.ok
                    /\ c.call = "IsErr" => c.ok
                    /\ c.call = "UnwrapErr" => c.panic = "" /\ c.err = made.err
                    /\ c.call = "Unwrap" => c.panic # ""

\* Err(nil) was made and Unwrap returned the zero value without a panic
C23_Witness ==
    /\ pc = "called"
    /\ ret[1].call = "Err"
    /\ ret[1].err = NilError
    /\ IsOk(res)
    /\ ret[2].call = "Unwrap"
    /\ ret[2].panic = ""
    /\ ret[2].value = 0

\* the name after the first and after the second replacement of toSnakeCase
FirstPass == Re1Replace(str, 1)

SecondPass == Re2Replace(FirstPass, 1)

\* s with "_" written before each position of ks
RECURSIVE InsertBefore(_, _, _)
InsertBefore(s, ks, i) ==
    IF i > Len(s) THEN <<>>
    ELSE (IF i \in ks THEN <<"_">> ELSE <<>>) \o <<s[i]>> \o InsertBefore(s, ks, i + 1)

\* the positions of s where an upper-case then lower-case pair starts after
\* at least n upper-case letters
PairsAfterRun(s, n) ==
    {k \in (n + 1)..(Len(s) - 1) :
        /\ IsUpper(s[k])
        /\ IsLower(s[k + 1])
        /\ \A j \in (k - n)..(k - 1) : IsUpper(s[j])}

(* C24 as stated: the second pass writes "_" only between a run of two or  *)
(* more upper-case characters and an upper-then-lower pair, and none when a *)
(* single upper-case character precedes the pair.                          *)
C24_SecondPassTwoOrMore ==
    pc = "snaked" => SecondPass = InsertBefore(FirstPass, PairsAfterRun(FirstPass, 2), 1)

(* C24: the second pass of the snake-case derivation writes "_" before     *)
(* every upper-then-lower pair that follows one or more upper-case          *)
(* characters, a single one included ("ABc" gives "A_Bc", "IPs" "I_Ps"),   *)
(* and nowhere else.                                                       *)
C24_SecondPassOneOrMore ==
    pc = "snaked" =>
        /\ SecondPass = InsertBefore(FirstPass, PairsAfterRun(FirstPass, 1), 1)
        /\ result = ToLower(SecondPass)

\* toSnakeCase("ABc") has returned "a_bc"
C24_Witness ==
    /\ pc = "snaked"
    /\ str = <<"A", "B", "c">>
    /\ FirstPass = str
    /\ result = <<"a", "_", "b", "c">>

\* what setFieldValue gives for the leaf at p from the value of its variable
Assigned(p) == setFieldValue(ValueAt(YamlOnly, T, p), FieldAt(T, p).type, ValueOf(p))

\* the leaves whose variable is set to a value setFieldValue rejects
RejectedLeaves == {p \in LeafPaths(T) : LeafIsSet(p) /\ Assigned(p).err # Nil}

\* the overlay of Load ran and failed
OverlayFailed ==
    /\ pc \in {"loaded", "validated"}
    /\ target.shape = "ptr"
    /\ ~YamlFailed
    /\ err # Nil

(* C25: the overlay is one pass over the leaves in depth-first declaration *)
(* order that stops at the first coercion failure: when Load fails at leaf *)
(* f, every leaf before f whose variable is set holds its environment      *)
(* value, f keeps its previous value, no leaf after f is assigned and no   *)
(* nullable record after f is instantiated.                                *)
C25_StopsAtFirstFailure ==
    OverlayFailed =>
        /\ RejectedLeaves # {}
        /\ LET f == First(RejectedLeaves)
           IN  /\ \A p \in LeafPaths(T) :
                      (PathLess(p, f) /\ LeafIsSet(p)) =>
                          ValueAt(target.val, T, p) = Assigned(p).v
               /\ ValueAt(target.val, T, f) = ValueAt(YamlOnly, T, f)
               /\ \A p \in LeafPaths(T) :
                      PathLess(f, p) => ValueAt(target.val, T, p) = ValueAt(YamlOnly, T, p)
               /\ \A r \in PointerPaths(T) :
                      PathLess(f, r) =>
                          ValueAt(target.val, T, r).nil = ValueAt(YamlOnly, T, r).nil

\* KindsConfig with LEVEL=7 and COUNT=three: Load failed at Count, Level holds 7
\* and Count, nil before, points at 0
C25_Witness ==
    /\ OverlayFailed
    /\ cfgType = "KindsConfig"
    /\ YamlOnly = Zero(T)
    /\ Getenv(env, <<"L", "E", "V", "E", "L">>) = <<"7">>
    /\ Getenv(env, <<"C", "O", "U", "N", "T">>) = <<"t", "h", "r", "e", "e">>
    /\ NamesAt(T, First(RejectedLeaves)) = <<N.Count>>
    /\ ValueAt(target.val, T, <<3>>) = 7
    /\ ValueAt(Zero(T), T, First(RejectedLeaves)) = NilPtr
    /\ ValueAt(target.val, T, First(RejectedLeaves)) = PtrVal(0)

\* the environment without the variables set to ""
NonEmptyEnv == [n \in {m \in DOMAIN env : env[m] # <<>>} |-> env[n]]

\* the names of the variables set to ""
EmptyVariables == {n \in DOMAIN env : env[n] = <<>>}

(* C26: a variable set to the empty string behaves as an unset one: Load   *)
(* returns the error and leaves the target it would with those variables   *)
(* removed from the environment, so a leaf whose variable is "" keeps its   *)
(* YAML or zero value, is not coerced whatever its kind, and does not make  *)
(* a nil nullable record.                                                  *)
C26_EmptyIsUnset ==
    (pc \in {"loaded", "validated"} /\ target.shape = "ptr") =>
        /\ LET r == Load(binder, NonEmptyEnv, file, [target EXCEPT !.val = Zero(T)], T)
           IN  /\ target.val = r.v
               /\ err = r.err
        /\ (~YamlFailed /\ NonEmptyEnv = EmptyMapping) =>
               /\ err = Nil
               /\ target.val = YamlOnly

\* TestConfig with the file of TestEnvOverridesYAML, SERVER_HOST="" and REDIS_HOST="":
\* the host of the file stays and Redis stays nil
C26_Witness ==
    /\ Loaded
    /\ cfgType = "TestConfig"
    /\ file[ConfigPath] = DocFile(DocOverride)
    /\ binder.yamlFile = ConfigPath
    /\ EmptyVariables = {<<"S", "E", "R", "V", "E", "R", "_", "H", "O", "S", "T">>, <<"R", "E", "D", "I", "S", "_", "H", "O", "S", "T">>}
    /\ log # <<>>
    /\ ValueAt(target.val, T, <<1, 1>>) = <<"y", "a", "m", "l", "-", "h", "o", "s", "t">>
    /\ ValueAt(target.val, T, <<3>>).nil

\* a numeral: an optional sign and one or more decimal digits
HasSign(s) == s # <<>> /\ s[1] \in {"+", "-"}

Body(s) == IF HasSign(s) THEN Tail(s) ELSE s

Numeral(s) == AllDigits(Body(s))

Negative(s) == s[1] = "-" /\ DigitsValue(Body(s)) # 0

NumberOfNumeral(s) == IF s[1] = "-" THEN 0 - DigitsValue(Body(s)) ELSE DigitsValue(Body(s))

\* the numeral is outside the 64-bit range of the kind
Outside64(kind, s) ==
    IF kind \in UintKinds THEN DigitsLess(MaxUint64Digits, Body(s))
    ELSE IF s[1] = "-" THEN DigitsLess(MinInt64Digits, Body(s))
    ELSE DigitsLess(MaxInt64Digits, Body(s))

\* 2^w for the kinds of fewer than 64 bits (0 for the others)
Modulus(kind) ==
    IF kind \in {"int8", "uint8"} THEN 256
    ELSE IF kind \in {"int16", "uint16"} THEN 65536
    ELSE 0

\* n reduced to the width of the kind
Reduced(kind, n) ==
    IF Modulus(kind) = 0 THEN n
    ELSE IF kind \in UintKinds THEN n % Modulus(kind)
    ELSE ((n + Modulus(kind) \div 2) % Modulus(kind)) - Modulus(kind) \div 2

IntLoaded == pc = "loaded" /\ cfgType \in IntLeafKinds /\ Numeral(str)

(* C27 as stated: for an integer leaf and a numeral, Load fails only when  *)
(* the value is outside the 64-bit range or is negative for an unsigned    *)
(* kind; otherwise it succeeds and stores the value reduced modulo 2^w.    *)
C27_OnlyRangeOrNegativeFails ==
    IntLoaded =>
        IF Outside64(cfgType, str) \/ (cfgType \in UintKinds /\ Negative(str))
        THEN err # Nil /\ target.val[1] \in {0, 5}
        ELSE err = Nil /\ target.val[1] = Reduced(cfgType, NumberOfNumeral(str))

(* C27: for an integer leaf and a numeral, Load fails only when the value  *)
(* is outside the 64-bit range or, for an unsigned kind, is written with a *)
(* sign ("-" or "+"); otherwise it succeeds and stores the value reduced   *)
(* modulo 2^w, by two's complement for the signed kinds.                   *)
C27_OnlyRangeOrSignFails ==
    IntLoaded =>
        IF Outside64(cfgType, str) \/ (cfgType \in UintKinds /\ HasSign(str))
        THEN /\ err = << Frame("failed to load from env"), FieldFrame(N.Port),
                         ValueFrame(IF cfgType \in UintKinds THEN "invalid uint value"
                                    ELSE "invalid int value", str) >>
             /\ target.val[1] \in {0, 5}
        ELSE err = Nil /\ target.val[1] = Reduced(cfgType, NumberOfNumeral(str))

\* PORT=300 on an int8 leaf: Load succeeded and Port holds 44
C27_Witness ==
    /\ pc = "loaded"
    /\ cfgType = "int8"
    /\ str = <<"3", "0", "0">>
    /\ err = Nil
    /\ target.val = <<44>>

\* the required fields that sit under a nil nullable record
RequiredUnderNil == {p \in FieldPaths(T) : FieldAt(T, p).required /\ ~Exists(p)}

(* C28: Validate does not descend into a nullable nested record that is    *)
(* nil: required fields declared inside it never cause a failure, so a     *)
(* target whose only zero-valued required fields sit under nil nullable    *)
(* records validates successfully.                                         *)
C28_NilRecordsNotValidated ==
    (/\ pc = "validated"
     /\ target.shape \in {"ptr", "value"}
     /\ RequiredUnderNil # {}
     /\ RequiredZeroPaths = {}) =>
        /\ result.panic = ""
        /\ result.err = Nil

\* KindsConfig with Level and Features set and Primary nil: Validate panics
C28_Witness ==
    /\ pc = "validated"
    /\ cfgType = "KindsConfig"
    /\ target.val[12].nil
    /\ RequiredUnderNil = {<<12, 1>>}
    /\ RequiredZeroPaths = {}
    /\ result.panic = "comparing uncomparable type"

\* the elements of PORT, as strings.Split cuts them
Parts == Split(str)

\* the positions (from 1) of the elements that do not coerce to the element type
BadParts ==
    {i \in 1..Len(Parts) :
        setFieldValue(Zero(ElemType(cfgType)), ElemType(cfgType), TrimSpace(Parts[i])).err # Nil}

\* the slice before the overlay: what the YAML step decoded, or nil
SliceBefore ==
    IF file[ConfigPath] = Absent THEN NilSlice
    ELSE IF cfgType = "string" THEN SliceVal(<<<<"a">>, <<"b">>>>)
    ELSE IF cfgType = "bool" THEN SliceVal(<<TRUE, FALSE>>)
    ELSE IF cfgType = "*int" THEN SliceVal(<<PtrVal(80), PtrVal(44)>>)
    ELSE SliceVal(<<80, 44>>)

SliceLoaded == pc = "loaded" /\ cfgType \in SliceElemKinds /\ str \in SliceValues

(* C29: assignment of a slice leaf is all-or-nothing: if coercion of any   *)
(* comma-separated element fails, Load returns an error that carries the   *)
(* index of the first failing element and the slice keeps the value it had *)
(* before the overlay (the YAML value or nil); otherwise the slice has one *)
(* element for each part.  No partially filled slice is ever stored.       *)
C29_SliceAllOrNothing ==
    SliceLoaded =>
        IF BadParts = {}
        THEN /\ err = Nil
             /\ ~target.val[1].nil
             /\ Len(target.val[1].elems) = Len(Parts)
        ELSE /\ err # Nil
             /\ \E k \in 1..Len(err) :
                    /\ err[k].msg = "invalid slice element at index"
                    /\ \A i \in BadParts : err[k].index + 1 <= i
                    /\ err[k].index + 1 \in BadParts
             /\ target.val[1] = SliceBefore

\* "1, 2,three,4,x" on a []int that YAML set to [80, 44]: index 2, slice kept
C29_Witness ==
    /\ SliceLoaded
    /\ cfgType = "int"
    /\ str = <<"1", ",", " ", "2", ",", "t", "h", "r", "e", "e", ",", "4", ",", "x">>
    /\ file[ConfigPath] # Absent
    /\ err # Nil
    /\ err[3].index = 2
    /\ target.val[1] = SliceVal(<<80, 44>>)

\* the overlay of Load ran, to its end or to a failure
OverlayDone == pc \in {"loaded", "validated"} /\ target.shape = "ptr" /\ ~YamlFailed

\* the nullable records that were not nil when the overlay began
RecordsBefore == {p \in PointerPaths(T) : ~ValueAt(YamlOnly, T, p).nil}

(* C30: the environment overlay never replaces or resets a nullable nested *)
(* record that is already non-nil: with no matching variable the record    *)
(* and all its fields are left unchanged, and with matching variables the  *)
(* record is still there and its leaves that have no variable keep their   *)
(* earlier values.                                                         *)
C30_NonNilRecordKept ==
    OverlayDone =>
        \A p \in RecordsBefore :
            /\ ~ValueAt(target.val, T, p).nil
            /\ ~AnySetBelow(p) => ValueAt(target.val, T, p) = ValueAt(YamlOnly, T, p)
            /\ \A q \in LeafPaths(T) :
                   (IsPrefix(p, q) /\ ~LeafIsSet(q)) =>
                       ValueAt(target.val, T, q) = ValueAt(YamlOnly, T, q)

\* ClusterConfig: the file sets Primary.Host and Primary.Auth.Username, the
\* environment PRIMARY_AUTH_PASSWORD alone
C30_Witness ==
    /\ OverlayDone
    /\ cfgType = "ClusterConfig"
    /\ err = Nil
    /\ file[ConfigPath] = DocFile(DocCluster)
    /\ binder.yamlFile = ConfigPath
    /\ DOMAIN env = {<<"P", "R", "I", "M", "A", "R", "Y", "_", "A", "U", "T", "H", "_", "P", "A", "S", "S", "W", "O", "R", "D">>}
    /\ RecordsBefore = {<<2>>, <<2, 2>>}
    /\ target.val[2].elem[1] = <<"y", "a", "m", "l", "-", "n", "o", "d", "e">>
    /\ target.val[2].elem[2].elem[1] = <<"y", "a", "m", "l", "-", "u", "s", "e", "r">>
    /\ target.val[2].elem[2].elem[2] = <<"s", "e", "c", "r", "e", "t">>

====
